---- MODULE Spec2Model ----
(***************************************************************************)
(* Build Diagnostic Engine of the kernel build action (error analyzer):    *)
(* analyzeErrors scans a build log line by line, segments it into error    *)
(* blocks, classifies every block against ERROR_PATTERNS, reports through  *)
(* core.info / core.warning / core.error and writes the 'have_error'       *)
(* marker.  Text is modelled as a sequence of one-character strings so     *)
(* that regular expressions, split, join and trim are computed, not        *)
(* assumed.                                                                *)
(***************************************************************************)
EXTENDS Integers, Sequences, FiniteSets, TLC

\* ------------------------------------------------------------------------
\* Bounds of the model
\* ------------------------------------------------------------------------

\* longest log, in lines, that Init puts in the log file
MaxLines == 3

\* number of analyzeErrors invocations in one behaviour
MaxRuns == 2

\* longest log, in lines of LogLines, given to a caller that invokes twice
MaxLinesTwice == 2

\* most trigger lines of a log of trigger lines each followed by a blank line
MaxPairs == 3

\* how many times cleanAll is called
MaxCleans == 1

\* most extra make arguments of one build
MaxArgs == 3

\* ------------------------------------------------------------------------
\* Characters and strings
\* ------------------------------------------------------------------------

CR == "\r"

LF == "\n"

TAB == "\t"

\* the characters JavaScript's \s and String.prototype.trim treat as white
\* space (ASCII part)
WhiteSpace == {" ", TAB, LF, CR, "\f"}

\* the characters the regular expression '.' does not match
LineTerminators == {LF, CR}

Digits == {"0", "1", "2", "3", "4", "5", "6", "7", "8", "9"}

UpperCase ==
    <<"A", "B", "C", "D", "E", "F", "G", "H", "I", "J", "K", "L", "M",
      "N", "O", "P", "Q", "R", "S", "T", "U", "V", "W", "X", "Y", "Z">>

LowerCase ==
    <<"a", "b", "c", "d", "e", "f", "g", "h", "i", "j", "k", "l", "m",
      "n", "o", "p", "q", "r", "s", "t", "u", "v", "w", "x", "y", "z">>

CaseMap ==
    [c \in {UpperCase[k] : k \in 1..Len(UpperCase)} |->
        LowerCase[CHOOSE k \in 1..Len(UpperCase) : UpperCase[k] = c]]

\* canonical form of a character under the regular expression flag /i
Canonicalize(c) == IF c \in DOMAIN CaseMap THEN CaseMap[c] ELSE c

CanonicalizeAll(text) == [k \in 1..Len(text) |-> Canonicalize(text[k])]

\* the JavaScript string whose characters are `chars`
RECURSIVE Str(_)
Str(chars) ==
    IF Len(chars) = 0 THEN ""
    ELSE IF Len(chars) = 1 THEN chars[1]
    ELSE Str(SubSeq(chars, 1, Len(chars) \div 2))
         \o Str(SubSeq(chars, Len(chars) \div 2 + 1, Len(chars)))

\* String.prototype.repeat, for a literal s
RECURSIVE Repeat(_, _)
Repeat(s, n) ==
    IF n = 0 THEN ""
    ELSE IF n % 2 = 1 THEN s \o Repeat(s, n - 1)
    ELSE Repeat(s, n \div 2) \o Repeat(s, n \div 2)

\* Array.prototype.join(sep) over lines of characters
RECURSIVE Join(_, _)
Join(ls, sep) ==
    IF ls = <<>> THEN <<>>
    ELSE IF Len(ls) = 1 THEN ls[1]
    ELSE ls[1] \o <<sep>> \o Join(Tail(ls), sep)

\* String.prototype.split(sep): the pieces between the occurrences of sep;
\* a text without sep, the empty text included, is one piece
Split(text, sep) ==
    LET seps == {k \in 1..Len(text) : text[k] = sep}
        n == Cardinality(seps)
        \* where the j-th separator is; 0 and Len(text) + 1 fence the text
        at(j) == IF j = 0 THEN 0
                 ELSE IF j = n + 1 THEN Len(text) + 1
                 ELSE CHOOSE p \in seps : Cardinality({q \in seps : q < p}) = j - 1
    IN  [j \in 1..(n + 1) |-> SubSeq(text, at(j - 1) + 1, at(j) - 1)]

\* no trimming at all: the line itself is tested
Trim_None(text) == text

\* String.prototype.trim
Trim(text) ==
    LET keep == {k \in 1..Len(text) : text[k] \notin WhiteSpace}
    IN  IF keep = {} THEN <<>>
        ELSE SubSeq(text,
                    CHOOSE a \in keep : \A k \in keep : a <= k,
                    CHOOSE b \in keep : \A k \in keep : k <= b)

\* String.prototype.includes for a literal needle
Includes(text, needle) ==
    \E i \in 1..(Len(text) - Len(needle) + 1) :
        \A k \in 1..Len(needle) : text[i + k - 1] = needle[k]

\* ------------------------------------------------------------------------
\* Regular expressions.  An expression is a sequence of alternatives, an
\* alternative a sequence of atoms: a one-character string is that literal
\* character, "\\s" one white space character, "\\d+" one or more digits,
\* ".*" any run of characters other than line terminators.
\* ------------------------------------------------------------------------

RegExp(alternatives, ignoreCase) ==
    [alts |-> IF ignoreCase
              THEN [a \in 1..Len(alternatives) |->
                      [k \in 1..Len(alternatives[a]) |->
                          IF Len(alternatives[a][k]) = 1
                          THEN Canonicalize(alternatives[a][k])
                          ELSE alternatives[a][k]]]
              ELSE alternatives,
     ignoreCase |-> ignoreCase]

IsLiteral(atom) == Len(atom) = 1

\* the first position from pi on that holds no literal atom
LiteralRunEnd(p, pi) ==
    IF \A k \in pi..Len(p) : IsLiteral(p[k]) THEN Len(p) + 1
    ELSE CHOOSE q \in pi..Len(p) :
            /\ ~IsLiteral(p[q])
            /\ \A k \in pi..(q - 1) : IsLiteral(p[k])

\* atoms p[pi..] match a prefix of text[ti..]; a run of literal atoms is
\* compared in one step
RECURSIVE MatchHere(_, _, _, _)
MatchHere(p, pi, text, ti) ==
    IF pi > Len(p) THEN TRUE
    ELSE IF p[pi] = ".*" THEN
        \E e \in ti..(Len(text) + 1) :
            /\ \A m \in ti..(e - 1) : text[m] \notin LineTerminators
            /\ MatchHere(p, pi + 1, text, e)
    ELSE IF p[pi] = "\\d+" THEN
        \E e \in (ti + 1)..(Len(text) + 1) :
            /\ \A m \in ti..(e - 1) : text[m] \in Digits
            /\ MatchHere(p, pi + 1, text, e)
    ELSE IF p[pi] = "\\s" THEN
        /\ ti <= Len(text)
        /\ text[ti] \in WhiteSpace
        /\ MatchHere(p, pi + 1, text, ti + 1)
    ELSE
        /\ ti <= Len(text)
        /\ text[ti] = p[pi]
        /\ LET q == LiteralRunEnd(p, pi)
           IN  /\ ti + (q - pi) - 1 <= Len(text)
               /\ \A k \in pi..(q - 1) : text[ti + (k - pi)] = p[k]
               /\ MatchHere(p, q, text, ti + (q - pi))

\* the expression matches somewhere in t, a text already in canonical form
\* when the expression ignores case; an alternative that starts with a
\* literal is tried only where that character stands
RegExpSearch(re, t) ==
    \E a \in 1..Len(re.alts) :
        LET p == re.alts[a]
        IN  IF Len(p) > 0 /\ IsLiteral(p[1])
            THEN \E i \in 1..Len(t) : t[i] = p[1] /\ MatchHere(p, 1, t, i)
            ELSE \E i \in 1..(Len(t) + 1) : MatchHere(p, 1, t, i)

\* RegExp.prototype.test: the expression matches somewhere in text
RegExpTest(re, text) ==
    RegExpSearch(re, IF re.ignoreCase THEN CanonicalizeAll(text) ELSE text)

\* ------------------------------------------------------------------------
\* The signature table
\* ------------------------------------------------------------------------

ERROR_PATTERNS == <<
    \* /No such file or directory/i  (line 20)
    [pattern |-> RegExp(<<<<"N", "o", " ", "s", "u", "c", "h", " ", "f", "i", "l", "e", " ", "o", "r", " ", "d", "i", "r", "e", "c", "t", "o", "r", "y">>>>, TRUE),
     type |-> "Missing Header or Source File",
     suggestion |-> "Check if the file path is correct, or if required development libraries are missing (e.g., libssl-dev, zlib1g-dev)."],
    \* /undefined reference to/i  (line 26)
    [pattern |-> RegExp(<<<<"u", "n", "d", "e", "f", "i", "n", "e", "d", " ", "r", "e", "f", "e", "r", "e", "n", "c", "e", " ", "t", "o">>>>, TRUE),
     type |-> "Link Error: Missing Library or Function",
     suggestion |-> "Check if required libraries are missing (e.g., -lssl, -lcrypto), if library paths are in LDFLAGS/LDLIBS, or if function names are misspelled."],
    \* /unrecognized command line option/i  (line 32)
    [pattern |-> RegExp(<<<<"u", "n", "r", "e", "c", "o", "g", "n", "i", "z", "e", "d", " ", "c", "o", "m", "m", "a", "n", "d", " ", "l", "i", "n", "e", " ", "o", "p", "t", "i", "o", "n">>>>, TRUE),
     type |-> "Compiler Option Not Supported",
     suggestion |-> "Your compiler version may be too old or too new. Check the options passed to the compiler in the Makefile for compatibility with your compiler version. Consider upgrading or downgrading the toolchain."],
    \* /misleading-indentation/i  (line 38)
    [pattern |-> RegExp(<<<<"m", "i", "s", "l", "e", "a", "d", "i", "n", "g", "-", "i", "n", "d", "e", "n", "t", "a", "t", "i", "o", "n">>>>, TRUE),
     type |-> "Code Indentation Does Not Match Logic",
     suggestion |-> "This is a code style/logic potential error. Add braces '{}' after 'if', 'for', 'while' statements to clarify code block scope. Or disable this warning (not recommended)."],
    \* /type specifier missing/i  (line 44)
    [pattern |-> RegExp(<<<<"t", "y", "p", "e", " ", "s", "p", "e", "c", "i", "f", "i", "e", "r", " ", "m", "i", "s", "s", "i", "n", "g">>>>, TRUE),
     type |-> "C Language Type Declaration Missing",
     suggestion |-> "Variable or function declarations may be missing types (e.g., int). For kernel modules, it could be missing headers or ordering issues, or API changes between kernel versions."],
    \* /make\[\d+\]:.*Error \d+/i  (line 50)
    [pattern |-> RegExp(<<<<"m", "a", "k", "e", "[", "\\d+", "]", ":", ".*", "E", "r", "r", "o", "r", " ", "\\d+">>>>, TRUE),
     type |-> "Makefile Build Error",
     suggestion |-> "This is a Makefile rule execution failure. Check the specific error messages above, usually a subcommand (e.g., 'gcc', 'ld', 'sh') returned a non-zero status code."],
    \* /target emulation unknown/i  (line 56)
    [pattern |-> RegExp(<<<<"t", "a", "r", "g", "e", "t", " ", "e", "m", "u", "l", "a", "t", "i", "o", "n", " ", "u", "n", "k", "n", "o", "w", "n">>>>, TRUE),
     type |-> "Linker Emulation Mode Error",
     suggestion |-> "Your linker (ld) does not recognize the specific emulation mode. Check if LLVM and GNU toolchains are mixed, or ensure LD variable correctly points to LLVM's lld."],
    \* /cannot open.*\.gz/i  (line 62)
    [pattern |-> RegExp(<<<<"c", "a", "n", "n", "o", "t", " ", "o", "p", "e", "n", ".*", ".", "g", "z">>>>, TRUE),
     type |-> "File Missing (Configuration May Not Be Generated)",
     suggestion |-> "Check if 'make defconfig' or your device-specific config has been run. If 'make mrproper' was executed previously, reconfiguration is needed."],
    \* /makes pointer from integer without a cast/i  (line 68)
    [pattern |-> RegExp(<<<<"m", "a", "k", "e", "s", " ", "p", "o", "i", "n", "t", "e", "r", " ", "f", "r", "o", "m", " ", "i", "n", "t", "e", "g", "e", "r", " ", "w", "i", "t", "h", "o", "u", "t", " ", "a", " ", "c", "a", "s", "t">>>>, TRUE),
     type |-> "Type Conversion Error (Pointer and Integer)",
     suggestion |-> "This is a severe type mismatch. Usually the function return type does not match the expected type (e.g., returning int but expecting pointer). May need to modify source code or use a more compatible compiler."],
    \* /MODULE_IMPORT_NS\(VFS_internal_I_am_really_a_filesystem_and_am_NOT_a_driver\)/i  (line 74)
    [pattern |-> RegExp(<<<<"M", "O", "D", "U", "L", "E", "_", "I", "M", "P", "O", "R", "T", "_", "N", "S", "(", "V", "F", "S", "_", "i", "n", "t", "e", "r", "n", "a", "l", "_", "I", "_", "a", "m", "_", "r", "e", "a", "l", "l", "y", "_", "a", "_", "f", "i", "l", "e", "s", "y", "s", "t", "e", "m", "_", "a", "n", "d", "_", "a", "m", "_", "N", "O", "T", "_", "a", "_", "d", "r", "i", "v", "e", "r", ")">>>>, TRUE),
     type |-> "Clang Version Anomaly",
     suggestion |-> "This is a compiler and KernelSU compatibility issue, usually occurs with KernelSU official version and SukiSU-Ultra. For official version, you can choose the old v0.9.5 version; for SukiSU-Ultra, it is generally recommended to switch to a different KernelSU branch."],
    \* /not found \(required by clang\)/i  (line 80)
    [pattern |-> RegExp(<<<<"n", "o", "t", " ", "f", "o", "u", "n", "d", " ", "(", "r", "e", "q", "u", "i", "r", "e", "d", " ", "b", "y", " ", "c", "l", "a", "n", "g", ")">>>>, TRUE),
     type |-> "Clang Version Anomaly",
     suggestion |-> "The current build system version is too old. If using 20.04, please use 22.04, otherwise use latest."],
    \* /multiple definition of 'yylloc'/i  (line 86)
    [pattern |-> RegExp(<<<<"m", "u", "l", "t", "i", "p", "l", "e", " ", "d", "e", "f", "i", "n", "i", "t", "i", "o", "n", " ", "o", "f", " ", "'", "y", "y", "l", "l", "o", "c", "'">>>>, TRUE),
     type |-> "Kernel Defect",
     suggestion |-> "Modify YYLTYPE yylloc to extern YYLTYPE yylloc in scripts/dtc/dtc-lexer.lex.c_shipped"],
    \* /assembler command failed with exit code 1/i  (line 92)
    [pattern |-> RegExp(<<<<"a", "s", "s", "e", "m", "b", "l", "e", "r", " ", "c", "o", "m", "m", "a", "n", "d", " ", "f", "a", "i", "l", "e", "d", " ", "w", "i", "t", "h", " ", "e", "x", "i", "t", " ", "c", "o", "d", "e", " ", "1">>>>, TRUE),
     type |-> "Clang Compiler Error",
     suggestion |-> "Switch to a different Clang compiler version"],
    \* /incompatible pointer types passing 'atomic_long_t \*'/i  (line 97)
    [pattern |-> RegExp(<<<<"i", "n", "c", "o", "m", "p", "a", "t", "i", "b", "l", "e", " ", "p", "o", "i", "n", "t", "e", "r", " ", "t", "y", "p", "e", "s", " ", "p", "a", "s", "s", "i", "n", "g", " ", "'", "a", "t", "o", "m", "i", "c", "_", "l", "o", "n", "g", "_", "t", " ", "*", "'">>>>, TRUE),
     type |-> "Source Code Pointer Type Error",
     suggestion |-> "Usually occurs after manual patching of cred.h, replace atomic_inc_not_zero with atomic_long_inc_not_zero in the code"],
    \* /-Werror/i  (line 103)
    [pattern |-> RegExp(<<<<"-", "W", "e", "r", "r", "o", "r">>>>, TRUE),
     type |-> "Warning Treated as Error",
     suggestion |-> "The compiler is treating warnings as errors due to -Werror flag. Either fix the underlying warning, or temporarily remove -Werror from CFLAGS/KBUILD_CFLAGS in the Makefile to allow compilation with warnings."],
    \* /implicit declaration of function/i  (line 109)
    [pattern |-> RegExp(<<<<"i", "m", "p", "l", "i", "c", "i", "t", " ", "d", "e", "c", "l", "a", "r", "a", "t", "i", "o", "n", " ", "o", "f", " ", "f", "u", "n", "c", "t", "i", "o", "n">>>>, TRUE),
     type |-> "Implicit Function Declaration",
     suggestion |-> "A function is being used without being declared first. Include the proper header file, or add a function declaration/prototype before use. This may also indicate an API change in newer kernel versions."],
    \* /array subscript.*is outside array bounds/i  (line 115)
    [pattern |-> RegExp(<<<<"a", "r", "r", "a", "y", " ", "s", "u", "b", "s", "c", "r", "i", "p", "t", ".*", "i", "s", " ", "o", "u", "t", "s", "i", "d", "e", " ", "a", "r", "r", "a", "y", " ", "b", "o", "u", "n", "d", "s">>>>, TRUE),
     type |-> "Array Index Out of Bounds",
     suggestion |-> "Accessing an array element outside its declared size. Check array bounds and ensure indices are within valid range [0, size-1]. This could be a buffer overflow risk."],
    \* /division by zero/i  (line 121)
    [pattern |-> RegExp(<<<<"d", "i", "v", "i", "s", "i", "o", "n", " ", "b", "y", " ", "z", "e", "r", "o">>>>, TRUE),
     type |-> "Division by Zero",
     suggestion |-> "Code attempts to divide by zero. Add proper checks to ensure the divisor is not zero before performing division operations."],
    \* /null pointer dereference/i  (line 127)
    [pattern |-> RegExp(<<<<"n", "u", "l", "l", " ", "p", "o", "i", "n", "t", "e", "r", " ", "d", "e", "r", "e", "f", "e", "r", "e", "n", "c", "e">>>>, TRUE),
     type |-> "Null Pointer Dereference",
     suggestion |-> "Attempting to access memory through a null pointer. Add null checks before dereferencing pointers, or ensure proper initialization before use."],
    \* /incompatible implicit declaration/i  (line 133)
    [pattern |-> RegExp(<<<<"i", "n", "c", "o", "m", "p", "a", "t", "i", "b", "l", "e", " ", "i", "m", "p", "l", "i", "c", "i", "t", " ", "d", "e", "c", "l", "a", "r", "a", "t", "i", "o", "n">>>>, TRUE),
     type |-> "Incompatible Implicit Declaration",
     suggestion |-> "Function was implicitly declared with a signature that does not match its actual definition. Include the correct header or add a proper function prototype."],
    \* /unused variable/i  (line 139)
    [pattern |-> RegExp(<<<<"u", "n", "u", "s", "e", "d", " ", "v", "a", "r", "i", "a", "b", "l", "e">>>>, TRUE),
     type |-> "Unused Variable",
     suggestion |-> "A variable is declared but never used. Either use the variable, remove it, or mark it with __maybe_unused attribute to suppress the warning."],
    \* /uninitialized variable/i  (line 145)
    [pattern |-> RegExp(<<<<"u", "n", "i", "n", "i", "t", "i", "a", "l", "i", "z", "e", "d", " ", "v", "a", "r", "i", "a", "b", "l", "e">>>>, TRUE),
     type |-> "Uninitialized Variable",
     suggestion |-> "A variable is being used before being initialized. Initialize the variable at declaration or before first use."],
    \* /dereferencing pointer to incomplete type/i  (line 151)
    [pattern |-> RegExp(<<<<"d", "e", "r", "e", "f", "e", "r", "e", "n", "c", "i", "n", "g", " ", "p", "o", "i", "n", "t", "e", "r", " ", "t", "o", " ", "i", "n", "c", "o", "m", "p", "l", "e", "t", "e", " ", "t", "y", "p", "e">>>>, TRUE),
     type |-> "Dereferencing Incomplete Type",
     suggestion |-> "Attempting to access members of a struct/union that has not been fully defined. Include the header file containing the complete type definition."],
    \* /conflicting types/i  (line 157)
    [pattern |-> RegExp(<<<<"c", "o", "n", "f", "l", "i", "c", "t", "i", "n", "g", " ", "t", "y", "p", "e", "s">>>>, TRUE),
     type |-> "Conflicting Types",
     suggestion |-> "A function or variable has been declared with different types in different places. Ensure all declarations match the definition exactly."],
    \* /redefinition of /i  (line 163)
    [pattern |-> RegExp(<<<<"r", "e", "d", "e", "f", "i", "n", "i", "t", "i", "o", "n", " ", "o", "f", " ">>>>, TRUE),
     type |-> "Symbol Redefinition",
     suggestion |-> "A function, variable, or macro has been defined multiple times. Check for duplicate definitions or include guards in header files."],
    \* /deprecated/i  (line 169)
    [pattern |-> RegExp(<<<<"d", "e", "p", "r", "e", "c", "a", "t", "e", "d">>>>, TRUE),
     type |-> "Deprecated API Usage",
     suggestion |-> "Using a deprecated function or feature. Update the code to use the recommended replacement API or suppress with -Wno-deprecated-declarations (not recommended for long-term)."],
    \* /overflow in conversion/i  (line 175)
    [pattern |-> RegExp(<<<<"o", "v", "e", "r", "f", "l", "o", "w", " ", "i", "n", " ", "c", "o", "n", "v", "e", "r", "s", "i", "o", "n">>>>, TRUE),
     type |-> "Integer Overflow in Conversion",
     suggestion |-> "A value is being converted to a type that cannot hold it. Check value ranges and use appropriate data types or add bounds checking."],
    \* /shift count overflow/i  (line 181)
    [pattern |-> RegExp(<<<<"s", "h", "i", "f", "t", " ", "c", "o", "u", "n", "t", " ", "o", "v", "e", "r", "f", "l", "o", "w">>>>, TRUE),
     type |-> "Bit Shift Overflow",
     suggestion |-> "The shift amount exceeds the bit width of the type. Ensure shift counts are less than the types bit width (e.g., < 32 for int32)."],
    \* /cast from pointer to integer of different size/i  (line 187)
    [pattern |-> RegExp(<<<<"c", "a", "s", "t", " ", "f", "r", "o", "m", " ", "p", "o", "i", "n", "t", "e", "r", " ", "t", "o", " ", "i", "n", "t", "e", "g", "e", "r", " ", "o", "f", " ", "d", "i", "f", "f", "e", "r", "e", "n", "t", " ", "s", "i", "z", "e">>>>, TRUE),
     type |-> "Pointer to Integer Size Mismatch",
     suggestion |-> "Converting a pointer to an integer type with different size. Use uintptr_t or intptr_t types which are guaranteed to hold pointer values."],
    \* /variable length array/i  (line 193)
    [pattern |-> RegExp(<<<<"v", "a", "r", "i", "a", "b", "l", "e", " ", "l", "e", "n", "g", "t", "h", " ", "a", "r", "r", "a", "y">>>>, TRUE),
     type |-> "Variable Length Array (VLA) Used",
     suggestion |-> "Using VLA which may cause stack overflow. Consider using dynamic allocation (kmalloc/vmalloc for kernel) instead, or ensure size is bounded."],
    \* /taking address of temporary/i  (line 199)
    [pattern |-> RegExp(<<<<"t", "a", "k", "i", "n", "g", " ", "a", "d", "d", "r", "e", "s", "s", " ", "o", "f", " ", "t", "e", "m", "p", "o", "r", "a", "r", "y">>>>, TRUE),
     type |-> "Address of Temporary Value",
     suggestion |-> "Attempting to take the address of a temporary/rvalue. Store the value in a variable first, then take its address."],
    \* /control reaches end of non-void function/i  (line 205)
    [pattern |-> RegExp(<<<<"c", "o", "n", "t", "r", "o", "l", " ", "r", "e", "a", "c", "h", "e", "s", " ", "e", "n", "d", " ", "o", "f", " ", "n", "o", "n", "-", "v", "o", "i", "d", " ", "f", "u", "n", "c", "t", "i", "o", "n">>>>, TRUE),
     type |-> "Missing Return Statement",
     suggestion |-> "A non-void function may reach the end without returning a value. Add a return statement at the end of all code paths."],
    \* /comparison of integer expressions of different signedness/i  (line 211)
    [pattern |-> RegExp(<<<<"c", "o", "m", "p", "a", "r", "i", "s", "o", "n", " ", "o", "f", " ", "i", "n", "t", "e", "g", "e", "r", " ", "e", "x", "p", "r", "e", "s", "s", "i", "o", "n", "s", " ", "o", "f", " ", "d", "i", "f", "f", "e", "r", "e", "n", "t", " ", "s", "i", "g", "n", "e", "d", "n", "e", "s", "s">>>>, TRUE),
     type |-> "Signed/Unsigned Comparison",
     suggestion |-> "Comparing signed and unsigned integers. Cast one operand to match the others type, or ensure consistent types throughout."],
    \* /result of operation is still indeterminate/i  (line 217)
    [pattern |-> RegExp(<<<<"r", "e", "s", "u", "l", "t", " ", "o", "f", " ", "o", "p", "e", "r", "a", "t", "i", "o", "n", " ", "i", "s", " ", "s", "t", "i", "l", "l", " ", "i", "n", "d", "e", "t", "e", "r", "m", "i", "n", "a", "t", "e">>>>, TRUE),
     type |-> "Sequence Point Violation",
     suggestion |-> "Undefined behavior due to multiple modifications between sequence points. Break the expression into multiple statements."],
    \* /stack-protector/i  (line 223)
    [pattern |-> RegExp(<<<<"s", "t", "a", "c", "k", "-", "p", "r", "o", "t", "e", "c", "t", "o", "r">>>>, TRUE),
     type |-> "Stack Protection Enabled But Failed",
     suggestion |-> "Stack smashing detected or stack protector instrumentation failed. Check for buffer overflows in the code, or disable with -fno-stack-protector (not recommended)."],
    \* /clock skew detected/i  (line 229)
    [pattern |-> RegExp(<<<<"c", "l", "o", "c", "k", " ", "s", "k", "e", "w", " ", "d", "e", "t", "e", "c", "t", "e", "d">>>>, TRUE),
     type |-> "Clock Skew Detected",
     suggestion |-> "File timestamps are in the future. Synchronize system clock or touch the affected files to update timestamps."]
>>

\* /\serror:|\sfatal error:|undefined reference to/i
ErrorStartRegExp ==
    RegExp(<< <<"\\s", "e", "r", "r", "o", "r", ":">>,
              <<"\\s", "f", "a", "t", "a", "l", " ", "e", "r", "r", "o", "r", ":">>,
              <<"u", "n", "d", "e", "f", "i", "n", "e", "d", " ",
                "r", "e", "f", "e", "r", "e", "n", "c", "e", " ", "t", "o">> >>,
           TRUE)

\* /make\[\d+\]:/
MakeRegExp == RegExp(<< <<"m", "a", "k", "e", "[", "\\d+", "]", ":">> >>, FALSE)

\* the line starts an error block
IsErrorStart(line) == RegExpTest(ErrorStartRegExp, line)

\* a continuation test that lets every line extend the open block
IsContinuation_AnyLine(line, processing) == processing

\* IsContinuation without its last clause: only notes and make sub-errors
\* continue a block
IsContinuation_NotesOnly(line, processing) ==
    /\ processing
    /\ \/ Includes(line, <<"n", "o", "t", "e", ":">>)
       \/ (RegExpTest(MakeRegExp, line) /\ Includes(line, <<"*", "*", "*">>))

\* the line continues the open error block
IsContinuation(line, processing) ==
    /\ processing
    /\ \/ Includes(line, <<"n", "o", "t", "e", ":">>)
       \/ (RegExpTest(MakeRegExp, line) /\ Includes(line, <<"*", "*", "*">>))
       \/ Trim(line) # <<>>

\* another default category
DefaultType_Unknown == "Unknown Error"

DefaultType == "Uncommon Error"

DefaultSuggestion ==
    "Please follow the compilation output error results and try to resolve using search engines"

\* whether entry k of ERROR_PATTERNS matches text; folded is text in
\* canonical form
PatternTest(k, text, folded) ==
    RegExpSearch(ERROR_PATTERNS[k].pattern,
                 IF ERROR_PATTERNS[k].pattern.ignoreCase THEN folded ELSE text)

\* the loop without its break: the last matching entry wins
RECURSIVE FirstMatch_Last(_, _, _)
FirstMatch_Last(text, folded, k) ==
    IF k > Len(ERROR_PATTERNS) THEN 0
    ELSE LET later == FirstMatch_Last(text, folded, k + 1)
         IN  IF later # 0 THEN later
             ELSE IF PatternTest(k, text, folded) THEN k
             ELSE 0

\* the for loop over ERROR_PATTERNS from entry k on: the index of the first
\* entry whose pattern matches text (there the loop breaks), 0 when the
\* loop runs out
RECURSIVE FirstMatch(_, _, _)
FirstMatch(text, folded, k) ==
    IF k > Len(ERROR_PATTERNS) THEN 0
    ELSE IF PatternTest(k, text, folded) THEN k
    ELSE FirstMatch(text, folded, k + 1)

\* a classifier that tests the patterns against the first line of the block
\* alone
analyzeErrorBlock_TriggerLineOnly(blockLines) ==
    LET errorBlockText == IF blockLines = <<>> THEN <<>> ELSE Head(blockLines)
        k == FirstMatch(errorBlockText, CanonicalizeAll(errorBlockText), 1)
    IN  IF k = 0
        THEN [type |-> DefaultType, suggestion |-> DefaultSuggestion]
        ELSE [type |-> ERROR_PATTERNS[k].type,
              suggestion |-> "Suggestion: " \o ERROR_PATTERNS[k].suggestion]

\* the classification of a block: the patterns are tested against its lines
\* joined by line breaks
analyzeErrorBlock(blockLines) ==
    LET errorBlockText == Join(blockLines, LF)
        k == FirstMatch(errorBlockText, CanonicalizeAll(errorBlockText), 1)
    IN  IF k = 0
        THEN [type |-> DefaultType, suggestion |-> DefaultSuggestion]
        ELSE [type |-> ERROR_PATTERNS[k].type,
              suggestion |-> "Suggestion: " \o ERROR_PATTERNS[k].suggestion]

\* an error block that keeps its lines last to first
ErrorBlock_LinesReversed(blockLines) ==
    LET c == analyzeErrorBlock(blockLines)
        n == Len(blockLines)
    IN  [lines |-> [i \in 1..n |-> blockLines[n + 1 - i]],
         type |-> c.type, suggestion |-> c.suggestion]

\* the error block pushed for the lines collected so far
ErrorBlock(blockLines) ==
    LET c == analyzeErrorBlock(blockLines)
    IN  [lines |-> blockLines, type |-> c.type, suggestion |-> c.suggestion]

\* PushOpenBlock without its guard: a block is pushed even when none is open
PushOpenBlock_Always(blocks, processing, current) ==
    Append(blocks, ErrorBlock(current))

\* PushOpenBlock with unshift for push: the block goes to the front
PushOpenBlock_AtFront(blocks, processing, current) ==
    IF processing /\ Len(current) > 0
    THEN <<ErrorBlock(current)>> \o blocks
    ELSE blocks

\* errorBlocks after 'save the open block if there is one'
PushOpenBlock(blocks, processing, current) ==
    IF processing /\ Len(current) > 0
    THEN Append(blocks, ErrorBlock(current))
    ELSE blocks

\* ------------------------------------------------------------------------
\* The reporting sink: core.info, core.warning, core.error
\* ------------------------------------------------------------------------

Info(msg) == [sev |-> "info", msg |-> msg]

Warning(msg) == [sev |-> "warning", msg |-> msg]

Error(msg) == [sev |-> "error", msg |-> msg]

printSeparator == Info(Repeat("-", 56))

RECURSIVE InfoLines(_)
InfoLines(blockLines) ==
    IF blockLines = <<>> THEN <<>>
    ELSE <<Info("  " \o Str(Head(blockLines)))>> \o InfoLines(Tail(blockLines))

\* a display loop that reads the category and the suggestion of the first
\* block for every block
RECURSIVE DisplayFrom_FirstBlockClass(_, _)
DisplayFrom_FirstBlockClass(blocks, k) ==
    IF k > Len(blocks) THEN <<>>
    ELSE <<Info("Error #" \o ToString(k) \o ":")>>
         \o InfoLines(blocks[k].lines)
         \o <<Info("Error: " \o blocks[1].type),
              Warning("Suggestion: " \o blocks[1].suggestion),
              printSeparator>>
         \o DisplayFrom_FirstBlockClass(blocks, k + 1)

\* what the display loop emits for errorBlocks[k..]
RECURSIVE DisplayFrom(_, _)
DisplayFrom(blocks, k) ==
    IF k > Len(blocks) THEN <<>>
    ELSE <<Info("Error #" \o ToString(k) \o ":")>>
         \o InfoLines(blocks[k].lines)
         \o <<Info("Error: " \o blocks[k].type),
              Warning("Suggestion: " \o blocks[k].suggestion),
              printSeparator>>
         \o DisplayFrom(blocks, k + 1)

\* what the final summary loop emits for errorBlocks[k..]
RECURSIVE SummaryFrom(_, _)
SummaryFrom(blocks, k) ==
    IF k > Len(blocks) THEN <<>>
    ELSE <<Info("\n  [" \o ToString(k) \o "] " \o blocks[k].type),
           Warning("      " \o blocks[k].suggestion)>>
         \o SummaryFrom(blocks, k + 1)

SummaryHead(count) ==
    <<Info("Total found " \o ToString(count) \o " error(s)."),
      Warning("Please carefully review the error messages and suggestions above.")>>

SummaryTail(blocks, count) ==
    <<Info(""),
      Info(Repeat("=", 56)),
      Info("                    Error Summary"),
      Info(Repeat("=", 56))>>
    \o SummaryFrom(blocks, 1)
    \o <<Info("\n" \o Repeat("=", 56)),
         Info("Total: " \o ToString(count) \o " error(s)"),
         Info(Repeat("=", 56))>>

\* ------------------------------------------------------------------------
\* The file system and the inputs
\* ------------------------------------------------------------------------

\* 'a.c: Error: x': a trigger line through \serror: under /i, matched by no signature
TrigError == <<"a", ".", "c", ":", " ", "E", "r", "r", "o", "r", ":", " ", "x">>

\* 'undefined reference to f': a trigger line through 'undefined reference to', matched by signature 2
TrigUndefined == <<"u", "n", "d", "e", "f", "i", "n", "e", "d", " ", "r", "e", "f", "e", "r", "e", "n", "c", "e", " ", "t", "o", " ", "f">>

\* 'note: No such file or directory': no trigger line, holds 'note:'; matched by signature 1
NoteNoSuchFile == <<"n", "o", "t", "e", ":", " ", "N", "o", " ", "s", "u", "c", "h", " ", "f", "i", "l", "e", " ", "o", "r", " ", "d", "i", "r", "e", "c", "t", "o", "r", "y">>

\* 'make[2]: *** [x] Error 1': no trigger line, a make sub-error; matched by signature 6
MakeError == <<"m", "a", "k", "e", "[", "2", "]", ":", " ", "*", "*", "*", " ", "[", "x", "]", " ", "E", "r", "r", "o", "r", " ", "1">>

\* 'error: y': no trigger line ('error:' has no white space before it), neither a note nor a make sub-error
BareError == <<"e", "r", "r", "o", "r", ":", " ", "y">>

\* '': the empty line
EmptyLine == <<>>

\* ' \r': a line of white space only (a CRLF line end after a space)
BlankLine == <<" ", CR>>

\* the lines a log is made of
LogLines ==
    {TrigError, TrigUndefined, NoteNoSuchFile, MakeError, BareError,
     EmptyLine, BlankLine}

\* the four lines of the end-to-end scenario; the third one is the empty line
\* "foo.c: error: undefined reference to 'bar'"
ScenarioLine1 == <<"f", "o", "o", ".", "c", ":", " ", "e", "r", "r", "o", "r", ":", " ", "u", "n", "d", "e", "f", "i", "n", "e", "d", " ", "r", "e", "f", "e", "r", "e", "n", "c", "e", " ", "t", "o", " ", "'", "b", "a", "r", "'">>

\* "note: declared here"
ScenarioLine2 == <<"n", "o", "t", "e", ":", " ", "d", "e", "c", "l", "a", "r", "e", "d", " ", "h", "e", "r", "e">>

\* "baz.c: error: unrecognized command line option '-fxyz'"
ScenarioLine4 == <<"b", "a", "z", ".", "c", ":", " ", "e", "r", "r", "o", "r", ":", " ", "u", "n", "r", "e", "c", "o", "g", "n", "i", "z", "e", "d", " ", "c", "o", "m", "m", "a", "n", "d", " ", "l", "i", "n", "e", " ", "o", "p", "t", "i", "o", "n", " ", "'", "-", "f", "x", "y", "z", "'">>

ScenarioLog == <<ScenarioLine1, ScenarioLine2, EmptyLine, ScenarioLine4>>

\* n trigger lines, each one immediately followed by a blank line
PairedLog(n) ==
    [k \in 1..(2 * n) |->
        IF k % 4 = 1 THEN TrigError
        ELSE IF k % 4 = 2 THEN EmptyLine
        ELSE IF k % 4 = 3 THEN TrigUndefined
        ELSE BlankLine]

BoundedSeq(S, n) == UNION {[1..k -> S] : k \in 0..n}

\* the contents a log file can have: up to MaxLines lines of LogLines joined
\* by LF, or the scenario log
LogContents ==
    {Join(ls, LF) : ls \in BoundedSeq(LogLines, MaxLines)}
        \cup {Join(ScenarioLog, LF)}
        \cup {Join(PairedLog(n), LF) : n \in 0..MaxPairs}

\* a path naming a regular file, a path naming nothing, a path naming a
\* directory
LogPath == "kernel/out/build.log"

MissingPath == "kernel/out/missing.log"

DirPath == "kernel/out"

Paths == {LogPath, MissingPath, DirPath}

File(content) == [kind |-> "file", content |-> content]

NoEntry == [kind |-> "none", content |-> <<>>]

Directory == [kind |-> "dir", content |-> <<>>]

\* fs.existsSync
existsSync(files, path) == files[path].kind # "none"

\* the path of the marker file, relative to the working directory
MarkerPath == "have_error"

\* the files after fs.writeFileSync('have_error', ''), where the marker
\* file is one of the files analyzeErrors may be pointed at
WriteMarker(files) ==
    IF MarkerPath \in DOMAIN files
    THEN [files EXCEPT ![MarkerPath] = File(<<>>)]
    ELSE files

MarkerAbsent == [exists |-> FALSE, content |-> ""]

\* the marker file after fs.writeFileSync('have_error', '')
MarkerWritten == [exists |-> TRUE, content |-> ""]

\* ------------------------------------------------------------------------
\* State
\* ------------------------------------------------------------------------

VARIABLES
    fs,                 \* the files analyzeErrors may be pointed at
    marker,             \* the file 'have_error' of the working directory
    pc,                 \* where the current analyzeErrors invocation stands
    logFile,            \* its argument
    lines,              \* content.split('\n')
    idx,                \* position of the for loop in lines
    errorCount,
    errorBlocks,
    currentErrorLines,
    processingError,
    report,             \* what the invocation has sent to the reporting sink
    ret,                \* its return value, once pc = "returned"
    exc,                \* the exception it propagated, once pc = "threw"
    markerWrites,       \* writes of 'have_error' it has completed
    runs,               \* invocations started so far
    prev,               \* what a caller kept of an earlier invocation
    mainPc,             \* where main() of the action stands
    postPc,             \* where post() of the action stands
    savedState,         \* the state main saved for post (core.saveState)
    inputs,             \* the inputs of the action that main branches on
    postEntry,          \* the file whose post() the runner executes
    cleaned,            \* the clean functions cleanAll has called, in order
    mainCalls,          \* the steps main has called from the build on, with their results
    actionFailed,       \* core.setFailed has been called
    env,                \* process.env, as far as the action reads it
    buildDir,           \* the files of the directory 'build'
    extraArgs,          \* buildKernel: the parsed extra make arguments
    safeExtraArgs,      \* buildKernel: what filterMakeArgs returned
    makeCmdArgs,        \* buildKernel: the arguments make is run with
    makePc              \* where buildKernel stands with its make arguments

vars ==
    <<fs, marker, pc, logFile, lines, idx, errorCount, errorBlocks,
      currentErrorLines, processingError, report, ret, exc, markerWrites,
      runs, prev, mainPc, postPc, savedState, inputs, postEntry, cleaned,
      mainCalls, actionFailed, env, buildDir, extraArgs, safeExtraArgs,
      makeCmdArgs, makePc>>

\* what main leaves behind besides its saved state
mainVars == <<mainCalls, actionFailed, env, buildDir>>

\* the variables of buildKernel's make arguments
makeVars == <<extraArgs, safeExtraArgs, makeCmdArgs, makePc>>

\* the variables of the action around the analyzer
actionVars ==
    <<mainPc, postPc, savedState, inputs, postEntry, cleaned, mainVars, makeVars>>

scanVars ==
    <<lines, idx, errorCount, errorBlocks, currentErrorLines, processingError>>

\* nothing kept of any invocation
NoRun ==
    [runs |-> 0, logFile |-> "", outcome |-> "", report |-> <<>>, ret |-> 0,
     markerWrites |-> 0]

\* the saved state of the action before any core.saveState
NoState == [BUILD_FAILED |-> ""]

\* an environment without RELEASE_MODE
NoEnv == [RELEASE_MODE |-> ""]

Init ==
    /\ \E content \in LogContents :
         fs = [p \in Paths |->
                 IF p = LogPath THEN File(content)
                 ELSE IF p = DirPath THEN Directory
                 ELSE NoEntry]
    /\ marker = MarkerAbsent
    /\ pc = "idle"
    /\ logFile = ""
    /\ lines = <<>>
    /\ idx = 1
    /\ errorCount = 0
    /\ errorBlocks = <<>>
    /\ currentErrorLines = <<>>
    /\ processingError = FALSE
    /\ report = <<>>
    /\ ret = 0
    /\ exc = ""
    /\ markerWrites = 0
    /\ runs = 0
    /\ prev = NoRun
    /\ mainPc = "none"
    /\ postPc = "none"
    /\ savedState = NoState
    /\ inputs = [ccache |-> FALSE, release |-> FALSE, anykernel3 |-> FALSE]
    /\ postEntry = ""
    /\ cleaned = <<>>
    /\ mainCalls = <<>>
    /\ actionFailed = FALSE
    /\ env = NoEnv
    /\ buildDir = {}
    /\ extraArgs = <<>>
    /\ safeExtraArgs = <<>>
    /\ makeCmdArgs = <<>>
    /\ makePc = "none"

\* a caller may invoke analyzeErrors: no invocation is in progress
CanInvoke == pc \in {"idle", "returned", "threw"} /\ runs < MaxRuns

\* ------------------------------------------------------------------------
\* analyzeErrors(logFile)
\* ------------------------------------------------------------------------

\* analyzeErrors without the existence test: reading the missing file throws
LogNotFound_Throws ==
    /\ CanInvoke
    /\ \E path \in DOMAIN fs :
        /\ ~existsSync(fs, path)
        /\ logFile' = path
        /\ report' = <<Info("Analyzing log file: " \o path), printSeparator>>
    /\ ret' = 0
    /\ exc' = "ENOENT"
    /\ pc' = "threw"
    /\ runs' = runs + 1
    /\ markerWrites' = 0
    /\ lines' = <<>>
    /\ idx' = 1
    /\ errorCount' = 0
    /\ errorBlocks' = <<>>
    /\ currentErrorLines' = <<>>
    /\ processingError' = FALSE
    /\ UNCHANGED <<actionVars, fs, prev, marker>>

\* the log file does not exist: report it and return 0
LogNotFound ==
    /\ CanInvoke
    /\ \E path \in DOMAIN fs :
        /\ ~existsSync(fs, path)
        /\ logFile' = path
        /\ report' = <<Error("Log file '" \o path \o "' does not exist.")>>
    /\ ret' = 0
    /\ exc' = ""
    /\ pc' = "returned"
    /\ runs' = runs + 1
    /\ markerWrites' = 0
    /\ lines' = <<>>
    /\ idx' = 1
    /\ errorCount' = 0
    /\ errorBlocks' = <<>>
    /\ currentErrorLines' = <<>>
    /\ processingError' = FALSE
    /\ UNCHANGED <<actionVars, fs, prev, marker>>

\* ReadLog with errorBlocks kept outside the function: the blocks of the
\* invocation before are still there when the scan starts
ReadLog_KeepsBlocks ==
    /\ CanInvoke
    /\ \E path \in DOMAIN fs :
        /\ existsSync(fs, path)
        /\ fs[path].kind = "file"
        /\ logFile' = path
        /\ report' = <<Info("Analyzing log file: " \o path), printSeparator>>
        /\ lines' = Split(fs[path].content, LF)
    /\ ret' = 0
    /\ exc' = ""
    /\ pc' = "scan"
    /\ runs' = runs + 1
    /\ markerWrites' = 0
    /\ idx' = 1
    /\ errorCount' = 0
    /\ currentErrorLines' = <<>>
    /\ processingError' = FALSE
    /\ UNCHANGED <<actionVars, fs, prev, marker, errorBlocks>>

\* the log file exists and is read: split it and start the scan
ReadLog ==
    /\ CanInvoke
    /\ \E path \in DOMAIN fs :
        /\ existsSync(fs, path)
        /\ fs[path].kind = "file"
        /\ logFile' = path
        /\ report' = <<Info("Analyzing log file: " \o path), printSeparator>>
        /\ lines' = Split(fs[path].content, LF)
    /\ ret' = 0
    /\ exc' = ""
    /\ pc' = "scan"
    /\ runs' = runs + 1
    /\ markerWrites' = 0
    /\ idx' = 1
    /\ errorCount' = 0
    /\ errorBlocks' = <<>>
    /\ currentErrorLines' = <<>>
    /\ processingError' = FALSE
    /\ UNCHANGED <<actionVars, fs, prev, marker>>

\* the path exists but fs.readFileSync throws (it names a directory)
ReadLogThrows ==
    /\ CanInvoke
    /\ \E path \in DOMAIN fs :
        /\ existsSync(fs, path)
        /\ fs[path].kind = "dir"
        /\ logFile' = path
        /\ report' = <<Info("Analyzing log file: " \o path), printSeparator>>
    /\ ret' = 0
    /\ exc' = "EISDIR"
    /\ pc' = "threw"
    /\ runs' = runs + 1
    /\ markerWrites' = 0
    /\ lines' = <<>>
    /\ idx' = 1
    /\ errorCount' = 0
    /\ errorBlocks' = <<>>
    /\ currentErrorLines' = <<>>
    /\ processingError' = FALSE
    /\ UNCHANGED <<actionVars, fs, prev, marker>>

\* ScanErrorStart that forgets to save the block the new one interrupts
ScanErrorStart_DropsOpenBlock ==
    /\ pc = "scan"
    /\ idx <= Len(lines)
    /\ IsErrorStart(lines[idx])
    /\ processingError' = TRUE
    /\ errorCount' = errorCount + 1
    /\ currentErrorLines' = <<lines[idx]>>
    /\ idx' = idx + 1
    /\ UNCHANGED <<actionVars, fs, prev, marker, pc, logFile, lines, errorBlocks, report, ret,
                   exc, markerWrites, runs>>

\* ScanErrorStart that lets an open block absorb the trigger line
ScanErrorStart_Absorbs ==
    /\ pc = "scan"
    /\ idx <= Len(lines)
    /\ IsErrorStart(lines[idx])
    /\ processingError' = TRUE
    /\ errorCount' = IF processingError THEN errorCount ELSE errorCount + 1
    /\ currentErrorLines' =
         IF processingError THEN Append(currentErrorLines, lines[idx])
         ELSE <<lines[idx]>>
    /\ idx' = idx + 1
    /\ UNCHANGED <<actionVars, fs, prev, marker, pc, logFile, lines, errorBlocks, report, ret,
                   exc, markerWrites, runs>>

\* ScanErrorStart that counts an error only when no block is open
ScanErrorStart_CountsFirstOnly ==
    /\ pc = "scan"
    /\ idx <= Len(lines)
    /\ IsErrorStart(lines[idx])
    /\ errorBlocks' = PushOpenBlock(errorBlocks, processingError, currentErrorLines)
    /\ processingError' = TRUE
    /\ errorCount' = IF processingError THEN errorCount ELSE errorCount + 1
    /\ currentErrorLines' = <<lines[idx]>>
    /\ idx' = idx + 1
    /\ UNCHANGED <<actionVars, fs, prev, marker, pc, logFile, lines, report, ret, exc,
                   markerWrites, runs>>

\* one iteration of the for loop: the line starts an error block
ScanErrorStart ==
    /\ pc = "scan"
    /\ idx <= Len(lines)
    /\ IsErrorStart(lines[idx])
    /\ errorBlocks' = PushOpenBlock(errorBlocks, processingError, currentErrorLines)
    /\ processingError' = TRUE
    /\ errorCount' = errorCount + 1
    /\ currentErrorLines' = <<lines[idx]>>
    /\ idx' = idx + 1
    /\ UNCHANGED <<actionVars, fs, prev, marker, pc, logFile, lines, report, ret, exc,
                   markerWrites, runs>>

\* ScanContinuation that passes over the line after the one it appends
ScanContinuation_SkipsLine ==
    /\ pc = "scan"
    /\ idx <= Len(lines)
    /\ ~IsErrorStart(lines[idx])
    /\ IsContinuation(lines[idx], processingError)
    /\ currentErrorLines' = Append(currentErrorLines, lines[idx])
    /\ idx' = IF idx < Len(lines) THEN idx + 2 ELSE idx + 1
    /\ UNCHANGED <<actionVars, fs, prev, marker, pc, logFile, lines,
                   errorCount, errorBlocks, processingError, report, ret, exc,
                   markerWrites, runs>>

\* one iteration of the for loop: the line continues the open error block
ScanContinuation ==
    /\ pc = "scan"
    /\ idx <= Len(lines)
    /\ ~IsErrorStart(lines[idx])
    /\ IsContinuation(lines[idx], processingError)
    /\ currentErrorLines' = Append(currentErrorLines, lines[idx])
    /\ idx' = idx + 1
    /\ UNCHANGED <<actionVars, fs, prev, marker, pc, logFile, lines, errorCount, errorBlocks,
                   processingError, report, ret, exc, markerWrites, runs>>

\* ScanBlockEnd that saves the block but leaves it open
ScanBlockEnd_LeavesOpen ==
    /\ pc = "scan"
    /\ idx <= Len(lines)
    /\ ~IsErrorStart(lines[idx])
    /\ ~IsContinuation(lines[idx], processingError)
    /\ errorBlocks' = PushOpenBlock(errorBlocks, processingError, currentErrorLines)
    /\ idx' = idx + 1
    /\ UNCHANGED <<actionVars, fs, prev, marker, pc, logFile, lines, errorCount,
                   currentErrorLines, processingError, report, ret, exc,
                   markerWrites, runs>>

\* one iteration of the for loop: the line ends the error block, if any
ScanBlockEnd ==
    /\ pc = "scan"
    /\ idx <= Len(lines)
    /\ ~IsErrorStart(lines[idx])
    /\ ~IsContinuation(lines[idx], processingError)
    /\ errorBlocks' = PushOpenBlock(errorBlocks, processingError, currentErrorLines)
    /\ processingError' = FALSE
    /\ currentErrorLines' = <<>>
    /\ idx' = idx + 1
    /\ UNCHANGED <<actionVars, fs, prev, marker, pc, logFile, lines, errorCount, report, ret,
                   exc, markerWrites, runs>>

\* the end of the loop without 'handle last error block': a block still
\* open at the end of the input is lost
HandleLastBlock_Drops ==
    /\ pc = "scan"
    /\ idx > Len(lines)
    /\ pc' = "display"
    /\ UNCHANGED <<actionVars, fs, prev, marker, logFile, lines, idx, errorCount, errorBlocks,
                   currentErrorLines, processingError, report, ret, exc,
                   markerWrites, runs>>

\* after the loop: the error block still open is saved
HandleLastBlock ==
    /\ pc = "scan"
    /\ idx > Len(lines)
    /\ errorBlocks' = PushOpenBlock(errorBlocks, processingError, currentErrorLines)
    /\ pc' = "display"
    /\ UNCHANGED <<actionVars, fs, prev, marker, logFile, lines, idx, errorCount,
                   currentErrorLines, processingError, report, ret, exc,
                   markerWrites, runs>>

\* every error block is displayed, in order
DisplayErrorBlocks ==
    /\ pc = "display"
    /\ report' = report \o DisplayFrom(errorBlocks, 1)
    /\ pc' = "summary"
    /\ UNCHANGED <<actionVars, fs, prev, marker, logFile, scanVars, ret, exc, markerWrites, runs>>

\* the marker file written inside the summary loop: once per error block
SummaryWithErrors_WritePerBlock ==
    /\ pc = "summary"
    /\ errorCount > 0
    /\ marker' = MarkerWritten
    /\ markerWrites' = markerWrites + Len(errorBlocks)
    /\ report' = report \o SummaryHead(errorCount)
                        \o SummaryTail(errorBlocks, errorCount)
                        \o <<printSeparator>>
    /\ ret' = errorCount
    /\ pc' = "returned"
    /\ fs' = WriteMarker(fs)
    /\ UNCHANGED <<actionVars, prev, logFile, scanVars, exc, runs>>

\* errors were found: total, marker file, final summary, return the count
SummaryWithErrors ==
    /\ pc = "summary"
    /\ errorCount > 0
    /\ marker' = MarkerWritten
    /\ markerWrites' = markerWrites + 1
    /\ report' = report \o SummaryHead(errorCount)
                        \o SummaryTail(errorBlocks, errorCount)
                        \o <<printSeparator>>
    /\ ret' = errorCount
    /\ pc' = "returned"
    /\ fs' = WriteMarker(fs)
    /\ UNCHANGED <<actionVars, prev, logFile, scanVars, exc, runs>>

\* errors were found, and fs.writeFileSync('have_error', '') throws
SummaryWriteThrows ==
    /\ pc = "summary"
    /\ errorCount > 0
    /\ report' = report \o SummaryHead(errorCount)
    /\ exc' = "EACCES"
    /\ pc' = "threw"
    /\ UNCHANGED <<actionVars, fs, prev, marker, logFile, scanVars, ret, markerWrites, runs>>

\* the marker file written before the test of errorCount
SummaryNoErrors_WritesMarker ==
    /\ pc = "summary"
    /\ ~(errorCount > 0)
    /\ marker' = MarkerWritten
    /\ markerWrites' = markerWrites + 1
    /\ report' = report \o <<Info("No errors found."), printSeparator>>
    /\ ret' = errorCount
    /\ pc' = "returned"
    /\ fs' = WriteMarker(fs)
    /\ UNCHANGED <<actionVars, prev, logFile, scanVars, exc, runs>>

\* no error was found
SummaryNoErrors ==
    /\ pc = "summary"
    /\ ~(errorCount > 0)
    /\ report' = report \o <<Info("No errors found."), printSeparator>>
    /\ ret' = errorCount
    /\ pc' = "returned"
    /\ UNCHANGED <<actionVars, fs, prev, marker, logFile, scanVars, exc, markerWrites, runs>>

Next ==
    \/ LogNotFound
    \/ ReadLog
    \/ ReadLogThrows
    \/ ScanErrorStart
    \/ ScanContinuation
    \/ ScanBlockEnd
    \/ HandleLastBlock
    \/ DisplayErrorBlocks
    \/ SummaryWithErrors
    \/ SummaryWriteThrows
    \/ SummaryNoErrors

Spec == Init /\ [][Next]_vars

\* one invocation of analyzeErrors, from the call to its return or throw
NextOnce == Next /\ runs' <= 1

SpecOnce == Init /\ [][NextOnce]_vars

\* ------------------------------------------------------------------------
\* A caller that keeps the outcome of one invocation and invokes again
\* ------------------------------------------------------------------------

\* the caller keeps what the invocation that just ended sent to the sink,
\* what it returned and whether it wrote the marker file
KeepOutcome ==
    /\ pc \in {"returned", "threw"}
    /\ runs < MaxRuns
    /\ prev = NoRun
    /\ prev' = [runs |-> runs, logFile |-> logFile, outcome |-> pc,
                report |-> report, ret |-> ret, markerWrites |-> markerWrites]
    /\ UNCHANGED <<actionVars, fs, marker, pc, logFile, scanVars, report, ret,
                   exc, markerWrites, runs>>

NextTwice ==
    \/ Next
    \/ KeepOutcome

\* the logs such a caller is given: up to MaxLinesTwice lines of LogLines,
\* the scenario log, trigger lines each followed by a blank line
TwiceContents ==
    {Join(ls, LF) : ls \in BoundedSeq(LogLines, MaxLinesTwice)}
        \cup {Join(ScenarioLog, LF)}
        \cup {Join(PairedLog(n), LF) : n \in 0..MaxPairs}

InitTwice ==
    /\ Init
    /\ fs[LogPath].content \in TwiceContents

SpecTwice == InitTwice /\ [][NextTwice]_vars

\* ------------------------------------------------------------------------
\* analyzeErrors where the marker file is one of the files it can be given
\* ------------------------------------------------------------------------

\* the contents of the files then: trigger lines each followed by a blank
\* line, or the scenario log
AliasContents ==
    {Join(PairedLog(n), LF) : n \in 0..MaxPairs} \cup {Join(ScenarioLog, LF)}

\* as Init, with 'have_error' among the paths: absent, or left with some
\* content by whatever ran before
InitAlias ==
    /\ \E content \in AliasContents,
          old \in {NoEntry} \cup {File(c) : c \in AliasContents} :
         /\ fs = [p \in Paths \cup {MarkerPath} |->
                    IF p = LogPath THEN File(content)
                    ELSE IF p = DirPath THEN Directory
                    ELSE IF p = MarkerPath THEN old
                    ELSE NoEntry]
         /\ marker = IF old = NoEntry THEN MarkerAbsent
                     ELSE [exists |-> TRUE, content |-> Str(old.content)]
    /\ pc = "idle"
    /\ logFile = ""
    /\ lines = <<>>
    /\ idx = 1
    /\ errorCount = 0
    /\ errorBlocks = <<>>
    /\ currentErrorLines = <<>>
    /\ processingError = FALSE
    /\ report = <<>>
    /\ ret = 0
    /\ exc = ""
    /\ markerWrites = 0
    /\ runs = 0
    /\ prev = NoRun
    /\ mainPc = "none"
    /\ postPc = "none"
    /\ savedState = NoState
    /\ inputs = [ccache |-> FALSE, release |-> FALSE, anykernel3 |-> FALSE]
    /\ postEntry = ""
    /\ cleaned = <<>>
    /\ mainCalls = <<>>
    /\ actionFailed = FALSE
    /\ env = NoEnv
    /\ buildDir = {}
    /\ extraArgs = <<>>
    /\ safeExtraArgs = <<>>
    /\ makeCmdArgs = <<>>
    /\ makePc = "none"

SpecAlias == InitAlias /\ [][Next]_vars

\* ------------------------------------------------------------------------
\* The action around the analyzer: main() and post()
\* ------------------------------------------------------------------------

\* path.join(path.join('kernel', 'kernel'), 'out', 'build.log'): the build
\* log for the default kernel-dir input
BuildLogPath == "kernel/kernel/out/build.log"

\* what make may have written to the build log
BuildLogContents == TwiceContents

\* the options post() passes to cleanAll
PostCleanOptions ==
    [kernelDir |-> "kernel/kernel", buildDir |-> "build", toolchains |-> TRUE,
     ccache |-> FALSE, env |-> TRUE]

\* the clean functions cleanAll(options) calls, in order
cleanAll(options) ==
    <<"cleanKernelSource", "cleanBuildArtifacts", "cleanAnyKernel3",
      "cleanTempFiles", "cleanSplitDir">>
    \o (IF options.toolchains THEN <<"cleanToolchains">> ELSE <<>>)
    \o (IF options.ccache THEN <<"cleanCcache">> ELSE <<>>)
    \o (IF options.env THEN <<"cleanEnvVars">> ELSE <<>>)

\* cleanTempFiles that also unlinks the marker file
tempFiles_WithMarker == {"boot.img", "magiskboot", "nohup.out", "have_error"}

\* the files of the working directory that cleanTempFiles unlinks
tempFiles == {"boot.img", "magiskboot", "nohup.out"}

\* the paths of the model that lie in a directory
pathsUnder(dir) ==
    CASE dir = "kernel" -> {LogPath, MissingPath, DirPath, BuildLogPath}
      [] dir = "kernel/kernel" -> {BuildLogPath}
      [] OTHER -> {}

\* the paths that are gone after cleanAll(options): what lies in the kernel
\* directory, the build directory, 'AnyKernel3' and 'split', and the
\* temporary files
removedByCleanAll(options) ==
    pathsUnder(options.kernelDir) \cup pathsUnder(options.buildDir)
        \cup pathsUnder("AnyKernel3") \cup pathsUnder("split") \cup tempFiles

\* the files after cleanAll(options)
filesAfterCleanAll(files, options) ==
    [p \in DOMAIN files |->
        IF p \in removedByCleanAll(options) THEN NoEntry ELSE files[p]]

\* the marker file after cleanAll(options)
markerAfterCleanAll(options) ==
    IF MarkerPath \in removedByCleanAll(options) THEN MarkerAbsent ELSE marker

\* the runner starts the action: nothing is cloned or built yet
InitMain ==
    /\ fs = [p \in {BuildLogPath} |-> NoEntry]
    /\ marker = MarkerAbsent
    /\ pc = "idle"
    /\ logFile = ""
    /\ lines = <<>>
    /\ idx = 1
    /\ errorCount = 0
    /\ errorBlocks = <<>>
    /\ currentErrorLines = <<>>
    /\ processingError = FALSE
    /\ report = <<>>
    /\ ret = 0
    /\ exc = ""
    /\ markerWrites = 0
    /\ runs = 0
    /\ prev = NoRun
    /\ mainPc = "setup"
    /\ postPc = "notStarted"
    /\ savedState = NoState
    /\ inputs \in [ccache : BOOLEAN, release : BOOLEAN, anykernel3 : BOOLEAN]
    /\ postEntry \in {"index.ts", "post.ts"}
    /\ cleaned = <<>>
    /\ mainCalls = <<>>
    /\ actionFailed = FALSE
    /\ env \in {NoEnv, [RELEASE_MODE |-> "true"]}
    /\ buildDir = {}
    /\ extraArgs = <<>>
    /\ safeExtraArgs = <<>>
    /\ makeCmdArgs = <<>>
    /\ makePc = "none"

\* the runs the post phase is followed on: AnyKernel3 packaging, and a
\* workflow that does not set RELEASE_MODE itself
InitAction ==
    /\ InitMain
    /\ inputs.anykernel3
    /\ env = NoEnv

analyzerVars ==
    <<pc, logFile, scanVars, report, ret, exc, markerWrites, runs>>

\* a step main has called, with how the call ended
Call(fn, result) == [fn |-> fn, result |-> result]

\* the build directory after packageAnyKernel3 has zipped the flasher
FlasherZip == {"AnyKernel3-flasher.zip"}

\* the build directory after packageAnyKernel3 has copied the flasher's
\* files one by one
FlasherFiles == {"anykernel.sh", "Image"}

\* the build directory after packageBootimg
BootImage == {"boot.img"}

\* packageKernel: the files it leaves in the build directory
packageKernel(config, environment) ==
    IF config.anykernel3
    THEN IF environment.RELEASE_MODE = "true" THEN FlasherZip ELSE FlasherFiles
    ELSE BootImage

\* main: everything before the build (environment, inputs, ccache,
\* dependencies, toolchains, clone, patches) went through
MainSetup ==
    /\ mainPc = "setup"
    /\ mainPc' = "build"
    /\ UNCHANGED <<fs, marker, prev, analyzerVars, postPc, savedState, inputs,
                   mainVars, makeVars, postEntry, cleaned>>

\* main: buildKernel ran make, which wrote the build log and exited with 0
MainBuildSucceeds ==
    /\ mainPc = "build"
    /\ \E content \in BuildLogContents :
         fs' = [fs EXCEPT ![BuildLogPath] = File(content)]
    /\ mainCalls' = Append(mainCalls, Call("buildKernel", "true"))
    /\ mainPc' = "verify"
    /\ UNCHANGED <<marker, prev, analyzerVars, postPc, savedState, inputs,
                   actionFailed, env, buildDir, makeVars, postEntry, cleaned>>

\* a failed build that main does not throw on
MainBuildFails_GoesOn ==
    /\ mainPc = "build"
    /\ \E content \in BuildLogContents :
         fs' = [fs EXCEPT ![BuildLogPath] = File(content)]
    /\ mainCalls' = Append(mainCalls, Call("buildKernel", "false"))
    /\ mainPc' = "verify"
    /\ UNCHANGED <<marker, prev, analyzerVars, postPc, savedState, inputs,
                   actionFailed, env, buildDir, makeVars, postEntry, cleaned>>

\* main: make wrote the build log and failed; buildKernel returns false,
\* main throws 'Kernel build failed' and its catch saves BUILD_FAILED and
\* marks the action failed
MainBuildFails ==
    /\ mainPc = "build"
    /\ \E content \in BuildLogContents :
         fs' = [fs EXCEPT ![BuildLogPath] = File(content)]
    /\ mainCalls' = Append(mainCalls, Call("buildKernel", "false"))
    /\ savedState' = [savedState EXCEPT !.BUILD_FAILED = "true"]
    /\ actionFailed' = TRUE
    /\ mainPc' = "failed"
    /\ UNCHANGED <<marker, prev, analyzerVars, postPc, inputs, env, buildDir,
                   makeVars, postEntry, cleaned>>

\* main: isBuildSuccessful found the kernel image
MainVerify ==
    /\ mainPc = "verify"
    /\ mainCalls' = Append(mainCalls, Call("isBuildSuccessful", "true"))
    /\ mainPc' = "package"
    /\ UNCHANGED <<fs, marker, prev, analyzerVars, postPc, savedState, inputs,
                   actionFailed, env, buildDir, makeVars, postEntry, cleaned>>

\* main: packageKernel
MainPackage ==
    /\ mainPc = "package"
    /\ buildDir' = packageKernel(inputs, env)
    /\ mainCalls' = Append(mainCalls, Call("packageKernel", "returned"))
    /\ mainPc' = IF inputs.ccache THEN "saveCcache" ELSE "publish"
    /\ UNCHANGED <<fs, marker, prev, analyzerVars, postPc, savedState, inputs,
                   actionFailed, env, makeVars, postEntry, cleaned>>

\* main: saveCcache, when the ccache input is set
MainSaveCcache ==
    /\ mainPc = "saveCcache"
    /\ mainCalls' = Append(mainCalls, Call("saveCcache", "returned"))
    /\ mainPc' = "publish"
    /\ UNCHANGED <<fs, marker, prev, analyzerVars, postPc, savedState, inputs,
                   actionFailed, env, buildDir, makeVars, postEntry, cleaned>>

\* the step main calls to publish what it built
publishStep == IF inputs.release THEN "createRelease" ELSE "uploadArtifacts"

\* the environment once main has reached that step: RELEASE_MODE is set
\* right before createRelease
publishEnv ==
    IF inputs.release THEN [env EXCEPT !.RELEASE_MODE = "true"] ELSE env

\* main: createRelease or uploadArtifacts, then 'completed successfully'
MainPublish ==
    /\ mainPc = "publish"
    /\ env' = publishEnv
    /\ mainCalls' = Append(mainCalls, Call(publishStep, "returned"))
    /\ mainPc' = "done"
    /\ UNCHANGED <<fs, marker, prev, analyzerVars, postPc, savedState, inputs,
                   actionFailed, buildDir, makeVars, postEntry, cleaned>>

\* the call main is at, ended by what makes main throw
failedCall ==
    CASE mainPc = "setup" -> <<>>
      [] mainPc = "build" -> <<Call("buildKernel", "threw")>>
      [] mainPc = "verify" -> <<Call("isBuildSuccessful", "false")>>
      [] mainPc = "package" -> <<Call("packageKernel", "threw")>>
      [] mainPc = "saveCcache" -> <<Call("saveCcache", "threw")>>
      [] mainPc = "publish" -> <<Call(publishStep, "threw")>>

\* main: the step at hand throws (a missing config file, a failed clone,
\* packaging, upload, ...) or finds no kernel image; the catch saves
\* BUILD_FAILED and marks the action failed
MainCatch ==
    /\ mainPc \in {"setup", "build", "verify", "package", "saveCcache",
                   "publish"}
    /\ mainCalls' = mainCalls \o failedCall
    /\ env' = IF mainPc = "publish" THEN publishEnv ELSE env
    /\ savedState' = [savedState EXCEPT !.BUILD_FAILED = "true"]
    /\ actionFailed' = TRUE
    /\ mainPc' = "failed"
    /\ UNCHANGED <<fs, marker, prev, analyzerVars, postPc, inputs, buildDir,
                   makeVars, postEntry, cleaned>>

\* core.getState('BUILD_FAILED') === 'true'
buildFailed == savedState.BUILD_FAILED = "true"

\* post that calls the analyzer whatever main saved
PostStart_IgnoresState ==
    /\ postPc = "notStarted"
    /\ mainPc \in {"done", "failed"}
    /\ postPc' = "analyze"
    /\ UNCHANGED <<fs, marker, prev, analyzerVars, mainPc, savedState, inputs, mainVars, makeVars,
                   postEntry, cleaned>>

\* post, up to the cleanup or the call of analyzeBuildErrors: the analyzer
\* is called if main saved BUILD_FAILED and, in post.ts, the build log exists
PostStart ==
    /\ postPc = "notStarted"
    /\ mainPc \in {"done", "failed"}
    /\ postPc' =
         IF buildFailed
            /\ (postEntry = "post.ts" => existsSync(fs, BuildLogPath))
         THEN "analyze"
         ELSE "cleanup"
    /\ UNCHANGED <<fs, marker, prev, analyzerVars, mainPc, savedState, inputs, mainVars, makeVars,
                   postEntry, cleaned>>

\* analyzeBuildErrors: the build log does not exist
PostLogNotFound ==
    /\ postPc = "analyze"
    /\ ~existsSync(fs, BuildLogPath)
    /\ report' = <<Warning("Build log not found: " \o BuildLogPath)>>
    /\ postPc' = "cleanup"
    /\ UNCHANGED <<fs, marker, prev, pc, logFile, scanVars, ret, exc,
                   markerWrites, runs, mainPc, savedState, inputs, mainVars, makeVars, postEntry,
                   cleaned>>

\* analyzeBuildErrors: the build log exists, analyzeErrors is called on it,
\* reads it and starts its scan
PostAnalyzeErrors ==
    /\ postPc = "analyze"
    /\ existsSync(fs, BuildLogPath)
    /\ logFile' = BuildLogPath
    /\ report' = <<Info("Analyzing log file: " \o BuildLogPath), printSeparator>>
    /\ lines' = Split(fs[BuildLogPath].content, LF)
    /\ ret' = 0
    /\ exc' = ""
    /\ pc' = "scan"
    /\ runs' = runs + 1
    /\ markerWrites' = 0
    /\ idx' = 1
    /\ errorCount' = 0
    /\ errorBlocks' = <<>>
    /\ currentErrorLines' = <<>>
    /\ processingError' = FALSE
    /\ postPc' = "analyzing"
    /\ UNCHANGED <<fs, marker, prev, mainPc, savedState, inputs, mainVars, makeVars, postEntry,
                   cleaned>>

\* analyzeErrors has returned: post goes on to the cleanup
PostAnalysisReturned ==
    /\ postPc = "analyzing"
    /\ pc = "returned"
    /\ postPc' = "cleanup"
    /\ UNCHANGED <<fs, marker, prev, analyzerVars, mainPc, savedState, inputs, mainVars, makeVars,
                   postEntry, cleaned>>

\* analyzeErrors has thrown: the catch of post reports it, and post ends
PostCatch ==
    /\ postPc = "analyzing"
    /\ pc = "threw"
    /\ report' = Append(report, Warning("Post-action failed: " \o exc))
    /\ postPc' = "caught"
    /\ UNCHANGED <<fs, marker, prev, pc, logFile, scanVars, ret, exc,
                   markerWrites, runs, mainPc, savedState, inputs, mainVars, makeVars, postEntry,
                   cleaned>>

\* post that cleans up first and only then goes on to the error analysis
PostCleanAll_BeforeAnalysis ==
    /\ postPc \in {"analyze", "cleanup"}
    /\ cleaned = <<>>
    /\ cleaned' = cleanAll(PostCleanOptions)
    /\ fs' = filesAfterCleanAll(fs, PostCleanOptions)
    /\ marker' = markerAfterCleanAll(PostCleanOptions)
    /\ postPc' = IF postPc = "analyze" THEN "analyze" ELSE "done"
    /\ UNCHANGED <<prev, analyzerVars, mainPc, savedState, inputs, mainVars,
                   makeVars, postEntry>>

\* cleanAll: the kernel directory, and the build log in it, are removed
\* among the rest; 'Cleanup completed!'
PostCleanAll ==
    /\ postPc = "cleanup"
    /\ cleaned' = cleanAll(PostCleanOptions)
    /\ fs' = filesAfterCleanAll(fs, PostCleanOptions)
    /\ marker' = markerAfterCleanAll(PostCleanOptions)
    /\ postPc' = "done"
    /\ UNCHANGED <<prev, analyzerVars, mainPc, savedState, inputs, mainVars, makeVars,
                   postEntry>>

NextAction ==
    \/ MainSetup
    \/ MainBuildSucceeds
    \/ MainBuildFails
    \/ MainVerify
    \/ MainPackage
    \/ MainSaveCcache
    \/ MainPublish
    \/ MainCatch
    \/ PostStart
    \/ PostLogNotFound
    \/ PostAnalyzeErrors
    \/ PostAnalysisReturned
    \/ PostCatch
    \/ PostCleanAll
    \/ ScanErrorStart
    \/ ScanContinuation
    \/ ScanBlockEnd
    \/ HandleLastBlock
    \/ DisplayErrorBlocks
    \/ SummaryWithErrors
    \/ SummaryWriteThrows
    \/ SummaryNoErrors

SpecAction == InitAction /\ [][NextAction]_vars

\* main alone, from the start of the action to its end
NextMain ==
    \/ MainSetup
    \/ MainBuildSucceeds
    \/ MainBuildFails
    \/ MainVerify
    \/ MainPackage
    \/ MainSaveCcache
    \/ MainPublish
    \/ MainCatch

SpecMain == InitMain /\ [][NextMain]_vars

\* ------------------------------------------------------------------------
\* buildKernel: the extra make arguments
\* ------------------------------------------------------------------------

\* String.prototype.startsWith
startsWith(text, prefix) ==
    /\ Len(prefix) <= Len(text)
    /\ SubSeq(text, 1, Len(prefix)) = prefix

\* the critical prefixes without 'O='
dangerous_WithoutOutputDir ==
    <<<<"C", "C", "=">>,
      <<"C", "X", "X", "=">>,
      <<"L", "D", "=">>,
      <<"A", "S", "=">>,
      <<"A", "R", "=">>,
      <<"N", "M", "=">>,
      <<"S", "T", "R", "I", "P", "=">>,
      <<"O", "B", "J", "C", "O", "P", "Y", "=">>,
      <<"O", "B", "J", "D", "U", "M", "P", "=">>,
      <<"H", "O", "S", "T", "C", "C", "=">>,
      <<"K", "B", "U", "I", "L", "D", "_", "H", "O", "S", "T", "C", "C", "=">>,
      <<"S", "H", "E", "L", "L", "=">>,
      <<"M", "A", "K", "E", "F", "L", "A", "G", "S", "=">>,
      <<"M", "A", "K", "E", "=">>,
      <<"C", "R", "O", "S", "S", "_", "C", "O", "M", "P", "I", "L", "E", "=">>,
      <<"C", "L", "A", "N", "G", "_", "T", "R", "I", "P", "L", "E", "=">>,
      <<"L", "L", "V", "M", "=">>,
      <<"C", "L", "V", "M", "=">>,
      <<"A", "R", "C", "H", "=">>>>

\* the prefixes of the make variables a user may not override
dangerous ==
    <<<<"C", "C", "=">>,
      <<"C", "X", "X", "=">>,
      <<"L", "D", "=">>,
      <<"A", "S", "=">>,
      <<"A", "R", "=">>,
      <<"N", "M", "=">>,
      <<"S", "T", "R", "I", "P", "=">>,
      <<"O", "B", "J", "C", "O", "P", "Y", "=">>,
      <<"O", "B", "J", "D", "U", "M", "P", "=">>,
      <<"H", "O", "S", "T", "C", "C", "=">>,
      <<"K", "B", "U", "I", "L", "D", "_", "H", "O", "S", "T", "C", "C", "=">>,
      <<"S", "H", "E", "L", "L", "=">>,
      <<"M", "A", "K", "E", "F", "L", "A", "G", "S", "=">>,
      <<"M", "A", "K", "E", "=">>,
      <<"C", "R", "O", "S", "S", "_", "C", "O", "M", "P", "I", "L", "E", "=">>,
      <<"C", "L", "A", "N", "G", "_", "T", "R", "I", "P", "L", "E", "=">>,
      <<"L", "L", "V", "M", "=">>,
      <<"C", "L", "V", "M", "=">>,
      <<"O", "=">>,
      <<"A", "R", "C", "H", "=">>>>

\* the arguments that start with none of the prefixes, in their order
filterMakeArgs(args) ==
    SelectSeq(args, LAMBDA arg :
        \A k \in 1..Len(dangerous) : ~startsWith(arg, dangerous[k]))

\* the warnings filterMakeArgs sends for the arguments it drops, in order
RECURSIVE filterWarnings(_)
filterWarnings(args) ==
    IF args = <<>> THEN <<>>
    ELSE (IF \E k \in 1..Len(dangerous) : startsWith(Head(args), dangerous[k])
          THEN <<Warning("Ignoring override of critical variable: " \o Str(Head(args)))>>
          ELSE <<>>)
         \o filterWarnings(Tail(args))

\* 'V=1': an ordinary variable
ExtraArg1 == <<"V", "=", "1">>

\* '-k': an option
ExtraArg2 == <<"-", "k">>

\* 'CC=gcc': the compiler
ExtraArg3 == <<"C", "C", "=", "g", "c", "c">>

\* 'O=o': the output directory
ExtraArg4 == <<"O", "=", "o">>

\* 'ARCH=x86': the architecture
ExtraArg5 == <<"A", "R", "C", "H", "=", "x", "8", "6">>

\* 'CROSS_COMPILE=x-': the cross-compiler prefix
ExtraArg6 == <<"C", "R", "O", "S", "S", "_", "C", "O", "M", "P", "I", "L", "E", "=", "x", "-">>

\* 'CROSS_COMPILE_ARM32=y-': a variable whose name only begins like a critical one
ExtraArg7 == <<"C", "R", "O", "S", "S", "_", "C", "O", "M", "P", "I", "L", "E", "_", "A", "R", "M", "3", "2", "=", "y", "-">>

\* 'CLANG_TRIPLE=t': the clang triple
ExtraArg8 == <<"C", "L", "A", "N", "G", "_", "T", "R", "I", "P", "L", "E", "=", "t">>

\* 'LLVM=1': a critical variable main does not set itself
ExtraArg9 == <<"L", "L", "V", "M", "=", "1">>

\* 'cc=gcc': a critical name in lower case
ExtraArg10 == <<"c", "c", "=", "g", "c", "c">>

\* ' CC=gcc': a critical name after a blank
ExtraArg11 == <<" ", "C", "C", "=", "g", "c", "c">>

\* 'CC:=gcc': a critical name followed by := instead of =
ExtraArg12 == <<"C", "C", ":", "=", "g", "c", "c">>

\* the extra make arguments a workflow passes, one by one
ExtraArgs ==
    {ExtraArg1, ExtraArg2, ExtraArg3, ExtraArg4, ExtraArg5, ExtraArg6,
     ExtraArg7, ExtraArg8, ExtraArg9, ExtraArg10, ExtraArg11, ExtraArg12}

\* the toolchains of the model: a downloaded clang without gcc, and the
\* system toolchain
Toolchains ==
    {[cc |-> <<"c", "l", "a", "n", "g">>, crossCompile |-> <<>>, crossCompileArm32 |-> <<>>],
     [cc |-> <<"/", "u", "s", "r", "/", "b", "i", "n", "/", "c", "l", "a", "n", "g">>,
      crossCompile |-> <<"/", "u", "s", "r", "/", "b", "i", "n", "/", "a", "a", "r", "c", "h", "6", "4", "-", "l", "i", "n", "u", "x", "-", "g", "n", "u", "-">>,
      crossCompileArm32 |-> <<"a", "r", "m", "-", "l", "i", "n", "u", "x", "-", "g", "n", "u", "e", "a", "b", "i", "h", "f", "-">>]}

\* CLANG_TRIPLE of an arm64 build
cmdClangTriple == <<"a", "a", "r", "c", "h", "6", "4", "-", "l", "i", "n", "u", "x", "-", "g", "n", "u", "-">>

\* the make arguments buildKernel itself puts before the extra ones, for an
\* arm64 build of 'defconfig' on a runner with 4 processors
ownMakeArgs(toolchain) ==
    <<<<"C", "C", "=">> \o toolchain.cc>>
    \o (IF toolchain.crossCompile # <<>>
        THEN <<<<"C", "R", "O", "S", "S", "_", "C", "O", "M", "P", "I", "L", "E", "=">> \o toolchain.crossCompile>> ELSE <<>>)
    \o (IF toolchain.crossCompileArm32 # <<>>
        THEN <<<<"C", "R", "O", "S", "S", "_", "C", "O", "M", "P", "I", "L", "E", "_", "A", "R", "M", "3", "2", "=">> \o toolchain.crossCompileArm32>> ELSE <<>>)
    \o <<<<"C", "L", "A", "N", "G", "_", "T", "R", "I", "P", "L", "E", "=">> \o cmdClangTriple>>
    \o <<<<"-", "j", "4">>, <<"d", "e", "f", "c", "o", "n", "f", "i", "g">>, <<"A", "R", "C", "H", "=", "a", "r", "m", "6", "4">>, <<"O", "=", "o", "u", "t">>, <<"a", "l", "l">>>>

\* buildKernel is called with some extra make arguments, already parsed
InitMake ==
    /\ fs = [p \in {BuildLogPath} |-> NoEntry]
    /\ marker = MarkerAbsent
    /\ pc = "idle"
    /\ logFile = ""
    /\ lines = <<>>
    /\ idx = 1
    /\ errorCount = 0
    /\ errorBlocks = <<>>
    /\ currentErrorLines = <<>>
    /\ processingError = FALSE
    /\ report = <<>>
    /\ ret = 0
    /\ exc = ""
    /\ markerWrites = 0
    /\ runs = 0
    /\ prev = NoRun
    /\ mainPc = "build"
    /\ postPc = "notStarted"
    /\ savedState = NoState
    /\ inputs = [ccache |-> FALSE, release |-> FALSE, anykernel3 |-> TRUE]
    /\ postEntry = "index.ts"
    /\ cleaned = <<>>
    /\ mainCalls = <<>>
    /\ actionFailed = FALSE
    /\ env = NoEnv
    /\ buildDir = {}
    /\ extraArgs \in BoundedSeq(ExtraArgs, MaxArgs)
    /\ safeExtraArgs = <<>>
    /\ makeCmdArgs = <<>>
    /\ makePc = "parsed"

\* buildKernel: filterMakeArgs(extraArgs), with its warnings
BuildKernelFilter ==
    /\ makePc = "parsed"
    /\ safeExtraArgs' = filterMakeArgs(extraArgs)
    /\ report' = report \o filterWarnings(extraArgs)
    /\ makePc' = "filtered"
    /\ UNCHANGED <<fs, marker, prev, pc, logFile, scanVars, ret, exc,
                   markerWrites, runs, mainPc, postPc, savedState, inputs,
                   postEntry, cleaned, mainVars, extraArgs, makeCmdArgs>>

\* buildKernel: the arguments of make are put together and make is run
BuildKernelMake ==
    /\ makePc = "filtered"
    /\ \E toolchain \in Toolchains :
         makeCmdArgs' = ownMakeArgs(toolchain) \o safeExtraArgs
    /\ makePc' = "made"
    /\ UNCHANGED <<fs, marker, prev, analyzerVars, mainPc, postPc, savedState,
                   inputs, postEntry, cleaned, mainVars, extraArgs,
                   safeExtraArgs>>

NextMake ==
    \/ BuildKernelFilter
    \/ BuildKernelMake

\* the make arguments of one call of buildKernel
SpecMake == InitMake /\ [][NextMake]_vars

\* a caller of the engine runs cleanAll between two invocations, on the
\* default kernel directory or on the one post() passes
CleanAllCall ==
    /\ pc \in {"idle", "returned", "threw"}
    /\ \E kernelDir \in {"kernel", "kernel/kernel"} :
         LET options == [PostCleanOptions EXCEPT !.kernelDir = kernelDir]
         IN  /\ cleaned' = cleaned \o cleanAll(options)
             /\ fs' = filesAfterCleanAll(fs, options)
             /\ marker' = markerAfterCleanAll(options)
    /\ Len(cleaned) < MaxCleans * Len(cleanAll(PostCleanOptions))
    /\ UNCHANGED <<prev, analyzerVars, mainPc, postPc, savedState, inputs,
                   mainVars, makeVars, postEntry>>

NextMarker ==
    \/ Next
    \/ CleanAllCall

\* invocations of analyzeErrors and calls of cleanAll, in any order
SpecMarker == InitTwice /\ [][NextMarker]_vars

\* ------------------------------------------------------------------------
\* Properties
\* ------------------------------------------------------------------------

\* the line is empty or holds white space only
IsBlank(line) == \A k \in 1..Len(line) : line[k] \in WhiteSpace

\* the positions of the trigger lines among ls
TriggerPositions(ls) == {k \in 1..Len(ls) : IsErrorStart(ls[k])}

\* the scan loop of the current invocation is over
ScanOver == pc \in {"display", "summary", "returned", "threw"}

\* the entries of ERROR_PATTERNS whose pattern matches text
SignatureHits(text) ==
    LET folded == CanonicalizeAll(text)
    IN  {k \in 1..Len(ERROR_PATTERNS) :
            RegExpSearch(ERROR_PATTERNS[k].pattern,
                         IF ERROR_PATTERNS[k].pattern.ignoreCase
                         THEN folded ELSE text)}

\* SignatureHits of every block the logs of Init can give, computed once
SignaturesOfBlock ==
    [b \in BoundedSeq(LogLines, MaxLines) |-> SignatureHits(Join(b, LF))]
        @@ [b \in {} |-> {}]

\* the entries of ERROR_PATTERNS whose pattern matches the block's text
MatchingSignatures(blockLines) ==
    IF blockLines \in DOMAIN SignaturesOfBlock
    THEN SignaturesOfBlock[blockLines]
    ELSE SignatureHits(Join(blockLines, LF))

\* C1: once the scan is over, there are as many recorded error blocks as
\* trigger lines in the log, and that number is the value returned.
C1_BlocksEqualTriggerLines ==
    /\ ScanOver => Len(errorBlocks) = Cardinality(TriggerPositions(lines))
    /\ pc = "returned" => ret = Cardinality(TriggerPositions(lines))

\* two trigger lines, the second still open at the end of the input, were
\* counted and recorded
C1_Witness ==
    /\ pc = "returned"
    /\ processingError
    /\ Len(errorBlocks) = 2
    /\ ret = 2

\* C2: every recorded error block has at least one line, and its first
\* line is a trigger line.
C2_BlockStartsWithTrigger ==
    \A b \in 1..Len(errorBlocks) :
        /\ Len(errorBlocks[b].lines) >= 1
        /\ IsErrorStart(errorBlocks[b].lines[1])

\* a block of a trigger line and a continuation line was recorded
C2_Witness ==
    /\ Len(errorBlocks) >= 1
    /\ Len(errorBlocks[1].lines) >= 2

\* C3: a trigger line is handled the same way whether or not a block is
\* open: the open block, if any, is recorded with the lines it has absorbed,
\* a new block is opened with the trigger line as its only line, and the
\* scan is in a block afterwards; after two consecutive trigger lines the
\* block recorded last holds the first of them alone.
C3_TriggerStartsFreshBlock ==
    [][(pc = "scan" /\ idx <= Len(lines) /\ IsErrorStart(lines[idx])) =>
         /\ processingError'
         /\ currentErrorLines' = <<lines[idx]>>
         /\ IF processingError
            THEN /\ Len(errorBlocks') = Len(errorBlocks) + 1
                 /\ SubSeq(errorBlocks', 1, Len(errorBlocks)) = errorBlocks
                 /\ errorBlocks'[Len(errorBlocks')].lines = currentErrorLines
            ELSE errorBlocks' = errorBlocks
         /\ (idx > 1 /\ IsErrorStart(lines[idx - 1])) =>
                /\ Len(errorBlocks') >= 1
                /\ errorBlocks'[Len(errorBlocks')].lines = <<lines[idx - 1]>>
      ]_vars

\* two consecutive trigger lines were scanned: the first is recorded alone,
\* the second is open
C3_Witness ==
    /\ pc = "scan"
    /\ idx >= 3
    /\ IsErrorStart(lines[idx - 2])
    /\ IsErrorStart(lines[idx - 1])
    /\ Len(errorBlocks) >= 1
    /\ errorBlocks[Len(errorBlocks)].lines = <<lines[idx - 2]>>
    /\ currentErrorLines = <<lines[idx - 1]>>

\* the last trigger line before position i
LastTriggerBefore(i) ==
    CHOOSE t \in 0..(i - 1) :
        /\ t > 0 => IsErrorStart(lines[t])
        /\ \A u \in (t + 1)..(i - 1) : ~IsErrorStart(lines[u])

C5_BlankLineClosesBlock ==
    [][(pc = "scan" /\ idx <= Len(lines) /\ ~IsErrorStart(lines[idx])) =>
         /\ (processingError /\ IsBlank(lines[idx])) =>
                /\ Len(errorBlocks') = Len(errorBlocks) + 1
                /\ SubSeq(errorBlocks', 1, Len(errorBlocks)) = errorBlocks
                /\ errorBlocks'[Len(errorBlocks')].lines = currentErrorLines
                /\ ~processingError'
                /\ currentErrorLines' = <<>>
         /\ ~processingError =>
                /\ errorBlocks' = errorBlocks
                /\ errorCount' = errorCount
                /\ ~processingError'
                /\ currentErrorLines' = <<>>
      ]_vars

\* a white-space-only line closed the block of line 1, and the non-blank
\* line after it was passed over outside any block
C5_Witness ==
    /\ pc = "scan"
    /\ idx = 4
    /\ IsErrorStart(lines[1])
    /\ lines[2] = BlankLine
    /\ lines[3] = BareError
    /\ Len(errorBlocks) = 1
    /\ errorBlocks[1].lines = <<lines[1]>>
    /\ ~processingError
    /\ currentErrorLines = <<>>

\* C6: the category of a recorded block is that of the first entry of
\* ERROR_PATTERNS, in declaration order, whose pattern matches the block's
\* text: when several entries match, the one declared first wins.
C6_FirstSignatureWins ==
    \A b \in 1..Len(errorBlocks) :
        LET hits == MatchingSignatures(errorBlocks[b].lines)
        IN  \A k \in hits :
                (\A j \in hits : k <= j) =>
                    errorBlocks[b].type = ERROR_PATTERNS[k].type

\* a recorded block matched by signature 2 in its first line and by
\* signature 1 in its second line carries the category of signature 1
C6_Witness ==
    \E b \in 1..Len(errorBlocks) :
        /\ errorBlocks[b].lines = <<TrigUndefined, NoteNoSuchFile>>
        /\ {1, 2} \subseteq MatchingSignatures(errorBlocks[b].lines)
        /\ errorBlocks[b].type = "Missing Header or Source File"

\* C7: every recorded block carries one classification (a category and a
\* remediation text); when no entry of ERROR_PATTERNS matches the block's
\* text it is the default one, 'Uncommon Error' with the search-engine text.
C7_DefaultClassification ==
    \A b \in 1..Len(errorBlocks) :
        /\ DOMAIN errorBlocks[b] = {"lines", "type", "suggestion"}
        /\ MatchingSignatures(errorBlocks[b].lines) = {} =>
             /\ errorBlocks[b].type = "Uncommon Error"
             /\ errorBlocks[b].suggestion =
                  "Please follow the compilation output error results and try to resolve using search engines"

\* a recorded block that no signature matches carries the default category
C7_Witness ==
    \E b \in 1..Len(errorBlocks) :
        /\ errorBlocks[b].lines = <<TrigError, BareError>>
        /\ MatchingSignatures(errorBlocks[b].lines) = {}
        /\ errorBlocks[b].type = "Uncommon Error"

\* C8: an invocation writes the marker file 'have_error' if and only if it
\* found at least one error, and then once, with empty content, however
\* many errors it found.
C8_MarkerWrittenOnceIffErrors ==
    /\ markerWrites <= 1
    /\ markerWrites = 1 => (errorCount >= 1 /\ marker = [exists |-> TRUE, content |-> ""])
    /\ pc = "returned" => (markerWrites = 1 <=> ret >= 1)

\* an invocation that found two errors has returned with one write
C8_Witness ==
    /\ pc = "returned"
    /\ ret = 2
    /\ Len(errorBlocks) = 2
    /\ markerWrites = 1
    /\ marker.exists

\* C9: for a log without trigger lines, the empty log included, the
\* invocation returns 0, reports 'No errors found.' and nothing about any
\* error block or summary, and does not write the marker file.
C9_NoTriggerNoErrors ==
    (/\ pc = "returned"
     /\ fs[logFile].kind = "file"
     /\ TriggerPositions(Split(fs[logFile].content, LF)) = {}) =>
        /\ ret = 0
        /\ errorBlocks = <<>>
        /\ report = << [sev |-> "info", msg |-> "Analyzing log file: " \o logFile],
                       [sev |-> "info", msg |-> Repeat("-", 56)],
                       [sev |-> "info", msg |-> "No errors found."],
                       [sev |-> "info", msg |-> Repeat("-", 56)] >>
        /\ markerWrites = 0
        /\ runs = 1 => ~marker.exists

\* a log of three lines, none a trigger line and not all blank, was analysed
C9_Witness ==
    /\ pc = "returned"
    /\ logFile = LogPath
    /\ Len(lines) = 3
    /\ lines[1] = BareError
    /\ TriggerPositions(lines) = {}
    /\ ret = 0

\* C10: an invocation on a path that names no existing file reports one
\* error-level 'does not exist' message and returns 0: nothing is scanned,
\* no marker is written, no exception propagates.
C10_MissingLogFile ==
    (runs > 0 /\ fs[logFile].kind = "none") =>
        /\ pc = "returned"
        /\ ret = 0
        /\ exc = ""
        /\ report = << [sev |-> "error",
                        msg |-> "Log file '" \o logFile \o "' does not exist."] >>
        /\ lines = <<>>
        /\ errorBlocks = <<>>
        /\ errorCount = 0
        /\ markerWrites = 0
        /\ runs = 1 => ~marker.exists

\* the invocation on the missing path has returned
C10_Witness ==
    /\ pc = "returned"
    /\ logFile = MissingPath
    /\ ~existsSync(fs, logFile)
    /\ Len(report) = 1

\* C11: an invocation never ends by a propagated exception, whatever its
\* input path names (nothing, a regular file, a directory) and whatever the
\* outcome of the write of the marker file: it ends by returning a count.
C11_NoExceptionPropagates ==
    /\ pc # "threw"
    /\ exc = ""

\* C12: for the scenario log, once the scan is over exactly two error blocks
\* are recorded: the first holds lines 1 and 2 and is a 'Link Error: Missing
\* Library or Function', the second holds line 4 alone and is a 'Compiler
\* Option Not Supported'; the invocation that returns returns 2 and has
\* written the marker file.
C12_EndToEndScenario ==
    (runs > 0 /\ fs[logFile].kind = "file"
              /\ fs[logFile].content = Join(ScenarioLog, LF)) =>
        /\ ScanOver =>
             /\ Len(errorBlocks) = 2
             /\ errorBlocks[1].lines = <<ScenarioLog[1], ScenarioLog[2]>>
             /\ errorBlocks[1].type = "Link Error: Missing Library or Function"
             /\ errorBlocks[2].lines = <<ScenarioLog[4]>>
             /\ errorBlocks[2].type = "Compiler Option Not Supported"
             /\ errorCount = 2
        /\ pc = "returned" =>
             /\ ret = 2
             /\ markerWrites = 1
             /\ marker = MarkerWritten

\* the invocation on the scenario log has returned 2
C12_Witness ==
    /\ pc = "returned"
    /\ lines = ScenarioLog
    /\ ret = 2
    /\ Len(errorBlocks) = 2
    /\ marker.exists

\* ls is n trigger lines each immediately followed by a blank line, with or
\* without the empty line that a final line break gives
IsPairedLines(ls, n) ==
    /\ Len(ls) \in {2 * n, 2 * n + 1}
    /\ Len(ls) = 2 * n + 1 => ls[2 * n + 1] = <<>>
    /\ \A i \in 1..n :
        /\ IsErrorStart(ls[2 * i - 1])
        /\ IsBlank(ls[2 * i])
        /\ ~IsErrorStart(ls[2 * i])

\* C13: for a log of N trigger lines each immediately followed by a blank
\* line (N >= 0), once the scan is over exactly N error blocks are recorded,
\* the i-th holding the i-th trigger line and nothing else, and the
\* invocation that returns returns N.
C13_OneBlockPerTriggerLine ==
    \A n \in 0..(Len(lines) \div 2) :
        (ScanOver /\ fs[logFile].kind = "file" /\ IsPairedLines(lines, n)) =>
            /\ Len(errorBlocks) = n
            /\ \A i \in 1..n : errorBlocks[i].lines = <<lines[2 * i - 1]>>
            /\ errorCount = n
            /\ pc = "returned" => ret = n

\* the invocation on three trigger lines, each followed by a blank line,
\* has returned 3
C13_Witness ==
    /\ pc = "returned"
    /\ Len(lines) = 6
    /\ IsPairedLines(lines, 3)
    /\ Len(errorBlocks) = 3
    /\ errorBlocks[3].lines = <<lines[5]>>
    /\ ret = 3

\* s is an initial part of t
IsPrefix(s, t) == Len(s) <= Len(t) /\ SubSeq(t, 1, Len(s)) = s

\* C14: an invocation on the path of an earlier invocation (the same log
\* content) that ends the way the earlier one did has sent the same report
\* lines to the sink, with the same severities in the same order, has
\* returned the same count and has written the marker file as often; if the
\* two end differently (the write of the marker file throws in one of them)
\* one report is an initial part of the other. Nothing carries over: every
\* scan starts with no block, no count and no open block.
C14_SecondRunSameAsFirst ==
    /\ (/\ prev # NoRun
        /\ runs > prev.runs
        /\ logFile = prev.logFile
        /\ pc \in {"returned", "threw"}) =>
          /\ IsPrefix(report, prev.report) \/ IsPrefix(prev.report, report)
          /\ pc = prev.outcome =>
               /\ report = prev.report
               /\ ret = prev.ret
               /\ markerWrites = prev.markerWrites
    /\ (pc = "scan" /\ idx = 1) =>
          /\ errorCount = 0
          /\ errorBlocks = <<>>
          /\ currentErrorLines = <<>>
          /\ ~processingError
          /\ Len(report) = 2

\* the second invocation on a log with two errors has returned what the
\* first one returned, after the same report
C14_Witness ==
    /\ prev.runs = 1
    /\ prev.outcome = "returned"
    /\ runs = 2
    /\ pc = "returned"
    /\ logFile = prev.logFile
    /\ ret = 2
    /\ prev.ret = 2
    /\ Len(report) > 10
    /\ report = prev.report
    /\ markerWrites = 1

\* the position in ls of its k-th trigger line
KthTrigger(ls, k) ==
    CHOOSE p \in TriggerPositions(ls) :
        Cardinality({q \in TriggerPositions(ls) : q <= p}) = k

\* the position in the report of the 'Error #k:' line: after the two lines
\* that open the report and, for each earlier block, its ordinal, its lines,
\* its category, its suggestion and a separator
RECURSIVE SectionStart(_, _)
SectionStart(blocks, k) ==
    IF k = 1 THEN 3
    ELSE SectionStart(blocks, k - 1) + Len(blocks[k - 1].lines) + 4

\* C15: the report lists the error blocks in the order of their trigger
\* lines, numbered from 1; for block k it holds, in this order, the ordinal,
\* the raw lines, the category and the suggestion of that same block; the
\* final summary of the invocation that returns restates ordinal, category
\* and suggestion of every block in the same order, then the total count.
C15_ReportInBlockOrder ==
    (pc \in {"summary", "returned", "threw"} /\ fs[logFile].kind = "file") =>
        LET n == Len(errorBlocks)
            base == SectionStart(errorBlocks, n + 1)
        IN  /\ Len(report) >= base - 1
            /\ \A k \in 1..n :
                LET b == errorBlocks[k]
                    at == SectionStart(errorBlocks, k)
                    m == Len(b.lines)
                IN  /\ b.lines[1] = lines[KthTrigger(lines, k)]
                    /\ report[at] = [sev |-> "info",
                                     msg |-> "Error #" \o ToString(k) \o ":"]
                    /\ \A i \in 1..m :
                         report[at + i] = [sev |-> "info",
                                           msg |-> "  " \o Str(b.lines[i])]
                    /\ report[at + m + 1] = [sev |-> "info",
                                             msg |-> "Error: " \o b.type]
                    /\ report[at + m + 2].sev = "warning"
                    /\ report[at + m + 2].msg = "Suggestion: " \o b.suggestion
                    /\ report[at + m + 3] = printSeparator
            /\ (pc = "returned" /\ n > 0) =>
                /\ Len(report) = base + 2 * n + 9
                /\ report[base].msg = "Total found " \o ToString(n) \o " error(s)."
                /\ \A k \in 1..n :
                    /\ report[base + 4 + 2 * k] =
                         [sev |-> "info",
                          msg |-> "\n  [" \o ToString(k) \o "] "
                                     \o errorBlocks[k].type]
                    /\ report[base + 5 + 2 * k] =
                         [sev |-> "warning",
                          msg |-> "      " \o errorBlocks[k].suggestion]
                /\ report[base + 7 + 2 * n] =
                     [sev |-> "info",
                      msg |-> "Total: " \o ToString(n) \o " error(s)"]
                /\ ret = n

\* a report on two blocks of different categories, the first one of two lines
C15_Witness ==
    /\ pc = "returned"
    /\ Len(errorBlocks) = 2
    /\ Len(errorBlocks[1].lines) = 2
    /\ errorBlocks[1].type # errorBlocks[2].type
    /\ errorBlocks[1].suggestion # errorBlocks[2].suggestion
    /\ Len(report) = 27
    /\ report[11].msg = "Error: " \o errorBlocks[2].type

\* C16: the patterns are tested against all the lines of a block joined by
\* line breaks: an entry of ERROR_PATTERNS that matches any one line of the
\* block, the trigger line or a line absorbed after it, matches the block,
\* and the block's category is that of the earliest entry that matches any
\* part of its text.
C16_ClassifiedOnWholeBlock ==
    \A b \in 1..Len(errorBlocks) :
        \A i \in 1..Len(errorBlocks[b].lines) :
            \A k \in MatchingSignatures(<<errorBlocks[b].lines[i]>>) :
                \E j \in 1..k :
                    /\ j \in MatchingSignatures(errorBlocks[b].lines)
                    /\ \A e \in 1..(j - 1) :
                         e \notin MatchingSignatures(errorBlocks[b].lines)
                    /\ errorBlocks[b].type = ERROR_PATTERNS[j].type

\* a recorded block whose trigger line no signature matches and whose
\* second line signature 6 matches carries the category of signature 6
C16_Witness ==
    \E b \in 1..Len(errorBlocks) :
        /\ errorBlocks[b].lines = <<TrigError, MakeError>>
        /\ MatchingSignatures(<<TrigError>>) = {}
        /\ 6 \in MatchingSignatures(<<MakeError>>)
        /\ errorBlocks[b].type = ERROR_PATTERNS[6].type
        /\ errorBlocks[b].type # DefaultType

\* C17: a recorded block that a signature matches carries exactly the
\* category and exactly the remediation text declared in ERROR_PATTERNS for
\* the first signature that matches it.
C17_DeclaredRemediationText ==
    \A b \in 1..Len(errorBlocks) :
        \A k \in MatchingSignatures(errorBlocks[b].lines) :
            (\A e \in 1..(k - 1) :
                e \notin MatchingSignatures(errorBlocks[b].lines)) =>
                    /\ errorBlocks[b].type = ERROR_PATTERNS[k].type
                    /\ errorBlocks[b].suggestion = ERROR_PATTERNS[k].suggestion

\* C18: the analyzer is invoked only after main saved BUILD_FAILED = 'true',
\* which main does in its failure handler only: after a main that completed
\* without throwing, nothing is saved, the analyzer is never invoked and no
\* marker file is written, whatever the build log holds.
C18_AnalyzerOnlyAfterFailedMain ==
    /\ (savedState.BUILD_FAILED = "true") <=> (mainPc = "failed")
    /\ (runs > 0 \/ pc # "idle" \/ postPc \in {"analyze", "analyzing", "caught"}) =>
          /\ savedState.BUILD_FAILED = "true"
          /\ mainPc = "failed"
    /\ mainPc = "done" =>
          /\ savedState = [BUILD_FAILED |-> ""]
          /\ runs = 0
          /\ pc = "idle"
          /\ report = <<>>
          /\ markerWrites = 0
          /\ ~marker.exists

\* post has reached its cleanup after a main that completed, on a build
\* log that holds a trigger line: the analyzer was not invoked
C18_Witness ==
    /\ mainPc = "done"
    /\ postPc = "cleanup"
    /\ fs[BuildLogPath].kind = "file"
    /\ TriggerPositions(Split(fs[BuildLogPath].content, LF)) # {}
    /\ runs = 0
    /\ ~marker.exists

\* C19: every execution of post runs the cleanup: when post has ended,
\* cleanAll has called its clean functions for the kernel directory, the
\* build directory, the toolchains and the environment variables, whether or
\* not the build failed and however the error analysis before it ended.
C19_PostAlwaysCleans ==
    postPc \in {"done", "caught"} =>
        /\ Len(cleaned) > 0
        /\ \A f \in {"cleanKernelSource", "cleanBuildArtifacts",
                     "cleanToolchains", "cleanEnvVars"} :
             \E i \in 1..Len(cleaned) : cleaned[i] = f

\* C20: no step of an invocation changes the file named by its input path:
\* the content of that file after the step is its content before.
C20_InputFileUnchanged ==
    [][logFile' \in DOMAIN fs => fs'[logFile'] = fs[logFile']]_vars

\* the categories a classification can carry
KnownTypes == {ERROR_PATTERNS[k].type : k \in 1..Len(ERROR_PATTERNS)} \cup {DefaultType}

\* C21: the scan always can take its next step and takes each line once, in
\* order: while lines are left, a step handles the line at idx and moves idx
\* one line on, leaving the log as it is; the scan ends exactly when idx has
\* passed the last line, and then every recorded block, if any, carries a
\* category and a suggestion. The empty log is one empty line.
C21_ScanTerminates ==
    /\ [](pc = "scan" =>
            /\ idx \in 1..(Len(lines) + 1)
            /\ Len(lines) >= 1
            /\ ENABLED (\/ ScanErrorStart
                        \/ ScanContinuation
                        \/ ScanBlockEnd
                        \/ HandleLastBlock))
    /\ [][pc = "scan" =>
            /\ lines' = lines
            /\ IF idx <= Len(lines)
               THEN /\ pc' = "scan"
                    /\ idx' = idx + 1
                    /\ \/ currentErrorLines' = <<>>
                       \/ currentErrorLines' = <<lines[idx]>>
                       \/ currentErrorLines' = Append(currentErrorLines, lines[idx])
               ELSE /\ pc' = "display"
                    /\ idx' = Len(lines) + 1
                    /\ \A b \in 1..Len(errorBlocks') :
                         /\ errorBlocks'[b].type \in KnownTypes
                         /\ Len(errorBlocks'[b].suggestion) > 0
      ]_vars

\* the scan of a log of three lines has ended after its third line, with a
\* block recorded
C21_Witness ==
    /\ pc = "display"
    /\ Len(lines) = 3
    /\ idx = 4
    /\ Len(errorBlocks) >= 1
    /\ ~IsErrorStart(lines[3])

\* C22: within an invocation a recorded block is never changed: after every
\* step the blocks recorded before it are still there, in place, with the
\* same lines, category and suggestion, and at most one block has been
\* appended after them.
C22_RecordedBlocksImmutable ==
    [][(runs' = runs) =>
          /\ IsPrefix(errorBlocks, errorBlocks')
          /\ Len(errorBlocks') <= Len(errorBlocks) + 1
      ]_vars

\* the first block was recorded when the trigger line 2 was read, and is
\* still line 1 alone after lines 2 and 3 went to the second block
C22_Witness ==
    /\ pc = "display"
    /\ Len(lines) = 3
    /\ Len(errorBlocks) = 2
    /\ errorBlocks[1].lines = <<lines[1]>>
    /\ errorBlocks[2].lines = <<lines[2], lines[3]>>

\* C23: the k-th recorded block is a run of consecutive lines of the log, in
\* log order, that starts at the k-th trigger line; a block ends before the
\* next one starts, so no line of the log belongs to two blocks and the
\* blocks are recorded in increasing order of position.
C23_BlocksContiguousDisjoint ==
    \A k \in 1..Len(errorBlocks) :
        LET from == KthTrigger(lines, k)
            to == from + Len(errorBlocks[k].lines) - 1
        IN  /\ to <= Len(lines)
            /\ errorBlocks[k].lines = SubSeq(lines, from, to)
            /\ k < Len(errorBlocks) => to < KthTrigger(lines, k + 1)
            /\ to < idx

\* two blocks were recorded with a line between them that belongs to
\* neither: lines 1-2, then line 4 of the scenario log
C23_Witness ==
    /\ pc = "returned"
    /\ lines = ScenarioLog
    /\ Len(errorBlocks) = 2
    /\ errorBlocks[1].lines = SubSeq(lines, 1, 2)
    /\ errorBlocks[2].lines = SubSeq(lines, 4, 4)

\* C28: no recorded block contains a blank line (empty or white space only),
\* and a line matching the trigger pattern occurs in a recorded block only
\* as its first line.
C28_NoBlankNoInnerTrigger ==
    \A b \in 1..Len(errorBlocks) :
        \A i \in 1..Len(errorBlocks[b].lines) :
            /\ ~IsBlank(errorBlocks[b].lines[i])
            /\ i > 1 => ~IsErrorStart(errorBlocks[b].lines[i])

\* a trigger line directly after a trigger line, then a blank line: two
\* blocks of one line each were recorded
C28_Witness ==
    /\ pc = "display"
    /\ Len(lines) = 3
    /\ IsErrorStart(lines[1])
    /\ IsErrorStart(lines[2])
    /\ IsBlank(lines[3])
    /\ Len(errorBlocks) = 2
    /\ Len(errorBlocks[2].lines) = 1

\* C30: while the scan loop runs, errorCount is the number of recorded
\* blocks plus one when a block is open, and processingError is true exactly
\* when currentErrorLines is not empty.
C30_CountersAgree ==
    pc = "scan" =>
        /\ errorCount = Len(errorBlocks) + (IF processingError THEN 1 ELSE 0)
        /\ processingError <=> (currentErrorLines # <<>>)

\* two lines in: one block recorded, the second one open
C30_Witness ==
    /\ pc = "scan"
    /\ idx = 3
    /\ Len(errorBlocks) = 1
    /\ processingError
    /\ errorCount = 2
    /\ Len(currentErrorLines) = 1

\* C24: main packages, saves the ccache, uploads or releases only after
\* buildKernel has returned true and isBuildSuccessful has returned true, in
\* that order; a call that returns false or throws is the last call main
\* makes, and main has then saved BUILD_FAILED = 'true' and marked the action
\* failed; a main that ran to its end has called exactly one of createRelease
\* and uploadArtifacts.
C24_MainStepsInOrder ==
    /\ \A i \in 1..Len(mainCalls) :
         mainCalls[i].fn \in {"packageKernel", "saveCcache", "createRelease",
                              "uploadArtifacts"}
           => \E j \in 1..(i - 1) : \E k \in (j + 1)..(i - 1) :
                /\ mainCalls[j] = Call("buildKernel", "true")
                /\ mainCalls[k] = Call("isBuildSuccessful", "true")
    /\ \A i \in 1..Len(mainCalls) :
         mainCalls[i].result \in {"false", "threw"}
           => /\ i = Len(mainCalls)
              /\ mainPc = "failed"
    /\ mainPc = "failed" =>
         /\ savedState.BUILD_FAILED = "true"
         /\ actionFailed
    /\ mainPc = "done" =>
         Cardinality({i \in 1..Len(mainCalls) :
                        mainCalls[i].fn \in {"createRelease", "uploadArtifacts"}}) = 1

\* the build and the packaging went through, then saveCcache threw: main
\* stopped there, failed
C24_Witness ==
    /\ mainPc = "failed"
    /\ mainCalls =
         <<Call("buildKernel", "true"), Call("isBuildSuccessful", "true"),
           Call("packageKernel", "returned"), Call("saveCcache", "threw")>>
    /\ savedState.BUILD_FAILED = "true"
    /\ actionFailed

\* C25: with the release input set and AnyKernel3 packaging selected, once
\* packageKernel has returned the build directory holds
\* AnyKernel3-flasher.zip: the flasher was packaged in release mode, before
\* createRelease is called.
C25_ReleasePackagesZip ==
    ( /\ inputs.release
      /\ inputs.anykernel3
      /\ \E i \in 1..Len(mainCalls) : mainCalls[i] = Call("packageKernel", "returned") )
        => "AnyKernel3-flasher.zip" \in buildDir

\* C26: post cleans up only when no analysis is under way, and when the
\* build failed and the build log exists the analysis of that log has
\* returned by then; the cleanup removes the log, and from the cleanup on no
\* step of the analyzer is taken.
C26_AnalysisBeforeCleanup ==
    [][ /\ (cleaned = <<>> /\ cleaned' # <<>>) =>
             /\ pc \in {"idle", "returned"}
             /\ (buildFailed /\ existsSync(fs, BuildLogPath)) =>
                   /\ pc = "returned"
                   /\ runs = 1
                   /\ logFile = BuildLogPath
             /\ ~existsSync(fs', BuildLogPath)
        /\ cleaned # <<>> =>
             /\ runs' = runs
             /\ pc' = pc
             /\ report' = report ]_vars

\* the build failed, the analysis found an error block in the build log and
\* returned, then the cleanup removed the log
C26_Witness ==
    /\ postPc = "done"
    /\ buildFailed
    /\ cleaned # <<>>
    /\ pc = "returned"
    /\ ret >= 1
    /\ logFile = BuildLogPath
    /\ fs[BuildLogPath] = NoEntry

\* C27: no step deletes the marker file: once 'have_error' exists it exists
\* after every later step, be it of an invocation of analyzeErrors (one that
\* finds errors, finds none, or finds no log) or a call of cleanAll.
C27_MarkerNeverDeleted ==
    [][marker.exists => marker'.exists]_vars

\* a first invocation wrote the marker, cleanAll then removed the kernel
\* directory with the log in it, and a second invocation on the same path
\* found no log: the marker is still there
C27_Witness ==
    /\ marker.exists
    /\ cleaned # <<>>
    /\ fs[LogPath] = NoEntry
    /\ runs = 2
    /\ logFile = LogPath
    /\ pc = "returned"
    /\ ret = 0
    /\ markerWrites = 0

====
